---- MODULE Spec2Model ----
(***************************************************************************)
(* A model of the webrtlsdr demodulation controller (Demodulator), its     *)
(* squelch gate (SquelchControl), the registry of modulation schemes, and  *)
(* the continuous read loop that feeds sample blocks to a receiver.        *)
(*                                                                         *)
(* The DSP primitives (filters, resamplers, discriminators) produce, for   *)
(* every block, an audio length n, a signal-to-noise ratio snr and, for    *)
(* WBFM, a "pilot found" flag; these are the inputs of receiveSamples.     *)
(***************************************************************************)
EXTENDS Integers, Sequences, FiniteSets, TLC

(***************************************************************************)
(* Bounds of the model.                                                    *)
(***************************************************************************)
MaxBlocks == 4
MaxDemods == 3
MaxRetunes == 2

(***************************************************************************)
(* Program constants.                                                      *)
(***************************************************************************)
InitialInRate == 1024000
DefaultMaxF == 5000
DefaultBandwidthAM == 15000
DefaultBandwidthSSB == 2800
DefaultBandwidthCW == 50
SQUELCH_TAIL_TENTHS == 1
PlayerSampleRate == 40

(***************************************************************************)
(* Input domains.                                                          *)
(***************************************************************************)
Centers == {0, 1}
Offsets == {0, 1}
BlockLens == {2, 5}
Snrs == {0, 3, 5}
SquelchLevels == {0, 3}
InRates == {InitialInRate, 256000}

Modes ==
  [scheme : {"WBFM"}, stereo : BOOLEAN]
  \cup [scheme : {"NBFM"}, maxF : {DefaultMaxF}, squelch : SquelchLevels]
  \cup [scheme : {"AM"}, bandwidth : {DefaultBandwidthAM}, squelch : SquelchLevels]
  \cup [scheme : {"USB", "LSB"}, bandwidth : {DefaultBandwidthSSB}, squelch : SquelchLevels]
  \cup [scheme : {"CW"}, bandwidth : {DefaultBandwidthCW, 100}]

VARIABLES
  registeredDemods,    \* modes.ts registry: insertion-ordered map name -> {demod, config}
  inRate,              \* Demodulator.inRate
  mode,                \* Demodulator.mode
  demod,               \* Demodulator.demod, the active pipeline instance
  frequencyOffset,     \* Demodulator.frequencyOffset
  latestStereo,        \* Demodulator.latestStereo
  expectingFrequency,  \* Demodulator.expectingFrequency: << >> (undefined) or <<[center, offset]>>
  countdown,           \* SquelchControl.countdown, in tenths of a sample
  nextId,              \* number of pipeline instances constructed so far
  nReceived,           \* number of receiveSamples calls so far
  played,              \* Player.play calls so far: the sequence numbers of the blocks played
  lastCall,            \* << >> or <<record of the latest receiveSamples call>>
  tail,                \* history: [seenHigh, lowSince] of the squelch gate
  tunerFreq,           \* centre frequency the tuner is capturing at
  retunes,             \* centre-frequency changes requested from the tuner, not yet in effect
  paired,              \* history: centre -> the offset last paired with it
  running,             \* read loop: the `running` flag
  inFlight,            \* read loop: number of unresolved readSamples() promises
  pc,                  \* read loop: position of the processSamples callback
  thrown,              \* << >> or <<[op, scheme, error]>>: the latest registry request and whether it threw
  heap,                \* mode records as objects: heap[r] is the record behind reference r
  cfg,                 \* a Configurator: [config, ref, scheme]; ref = 0 while base is still the scheme name
  given,               \* reference of the record handed to modeParameters (0: a scheme name was handed)
  lastSet,             \* << >> or <<[op, arg]>>: the latest call on the configurator (a setter, or the mode getter)
  wb,                  \* a DemodWBFM pipeline: [stereo, leftVal, rightVal, blocks, stereoBlocks]
  wbOut,               \* << >> or <<record of the latest DemodWBFM.demodulate call>>
  lengthCase,          \* a pipeline and a block: [scheme, inRate, outRate, n]
  lengthOut,           \* << >> or <<length of the audio block the pipeline returned>>
  counter,             \* a SampleCounter: [clicksPerSecond, sampleRate, samplesPerClick, countedSamples]
  clicks,              \* history: [total, calls, events, last, fixedRate] of the SampleCounter
  fake,                \* a FakeRtlDevice: [gain, gainMultiplier]; gain is << >> for null
  bytes,               \* << >> or <<record of the latest FakeRtlDevice.readSamples call: pending (called, generated) or resolved>>
  trip,                \* a byte and its conversion to a float: [b, f]
  schemes,             \* the registry's callers: [log, got]; log is the registerDemod and unregisterDemod calls so far, got is << >> or <<latest getSchemes() result>>
  opLog,               \* history: calls made on the Demodulator, in order (SpecPending: every call; SpecTail: the block that last started the squelch tail; SpecStereo: the stereo-status events)
  io,                  \* the I/Q arrays of the latest block: [pipeline, theta, delivered, after]; theta is the phase of the active pipeline's frequency shifter, after the arrays' contents when receiveSamples returned
  cw,                  \* a DemodCW pipeline: [options, audioTaps, outRate, mode, filterI, filterQ, sets, blocks]; the filters are held as their kernels
  comp,                \* a receiver made by CompositeReceiver.of: [receiver, tree, ofs, last, calls]; tree is how it was put together, calls the component calls of the latest call
  sink                 \* a Demodulator's player: [arg, player, sampleRate, volume, plays, got]; volume and plays are per player

demodVars == <<registeredDemods, inRate, mode, demod, frequencyOffset, latestStereo,
               expectingFrequency, countdown, nextId, nReceived, played, lastCall, tail>>
tunerVars == <<tunerFreq, retunes, paired>>
readVars == <<running, inFlight, pc>>
callVars == <<thrown>>
cfgVars == <<heap, cfg, given, lastSet>>
wbfmVars == <<wb, wbOut>>
lengthVars == <<lengthCase, lengthOut>>
counterVars == <<counter, clicks>>
fakeVars == <<fake, bytes, trip>>
playerVars == <<sink>>
schemeVars == <<schemes>>
compositeVars == <<comp>>
logVars == <<opLog>>
ioVars == <<io>>
cwVars == <<cw>>
laterVars == <<playerVars, schemeVars, compositeVars, logVars, ioVars, cwVars>>
laterButPlayer == <<schemeVars, compositeVars, logVars, ioVars, cwVars>>
laterButSchemes == <<playerVars, compositeVars, logVars, ioVars, cwVars>>
laterButComposite == <<playerVars, schemeVars, logVars, ioVars, cwVars>>
laterButLog == <<playerVars, schemeVars, compositeVars, ioVars, cwVars>>
laterButIo == <<playerVars, schemeVars, compositeVars, logVars, cwVars>>
laterButCw == <<playerVars, schemeVars, compositeVars, logVars, ioVars>>
otherVars == <<callVars, cfgVars, wbfmVars, lengthVars, counterVars, fakeVars, laterVars>>
vars == <<demodVars, tunerVars, readVars, otherVars>>

(***************************************************************************)
(* The registry of modulation schemes (modes.ts).                          *)
(***************************************************************************)
DefaultRegistry ==
  << [name |-> "WBFM", demod |-> "DemodWBFM", config |-> "ConfigWBFM"],
     [name |-> "NBFM", demod |-> "DemodNBFM", config |-> "ConfigNBFM"],
     [name |-> "AM", demod |-> "DemodAM", config |-> "ConfigAM"],
     [name |-> "USB", demod |-> "DemodSSB", config |-> "ConfigSSB"],
     [name |-> "LSB", demod |-> "DemodSSB", config |-> "ConfigSSB"],
     [name |-> "CW", demod |-> "DemodCW", config |-> "ConfigCW"] >>

\* registeredDemods.get(scheme): << >> when absent, else <<entry>>.
registryGet(reg, scheme) ==
  LET idx == {i \in 1..Len(reg) : reg[i].name = scheme}
  IN IF idx = {} THEN << >> ELSE <<reg[CHOOSE i \in idx : TRUE]>>

\* getRegisteredDemod: [ok |-> FALSE] stands for the thrown string.
getRegisteredDemod(reg, scheme) ==
  LET r == registryGet(reg, scheme)
  IN IF r = << >> THEN [ok |-> FALSE, demod |-> "", config |-> ""]
     ELSE [ok |-> TRUE, demod |-> r[1].demod, config |-> r[1].config]

\* Configurator.create of each configurator class: the default mode.
create(config, scheme) ==
  CASE config = "ConfigWBFM" -> [scheme |-> "WBFM", stereo |-> TRUE]
    [] config = "ConfigNBFM" -> [scheme |-> "NBFM", maxF |-> DefaultMaxF, squelch |-> 0]
    [] config = "ConfigAM" -> [scheme |-> "AM", bandwidth |-> DefaultBandwidthAM, squelch |-> 0]
    [] config = "ConfigSSB" -> [scheme |-> scheme, bandwidth |-> DefaultBandwidthSSB, squelch |-> 0]
    [] config = "ConfigCW" -> [scheme |-> "CW", bandwidth |-> DefaultBandwidthCW]

\* modes.getMode(scheme): the default mode of a registered scheme.
getMode(reg, scheme) == create(getRegisteredDemod(reg, scheme).config, scheme)

\* Mutant of hasSquelch: only WBFM is taken to have no squelch.
hasSquelch_allButWBFM(config) == config # "ConfigWBFM"

\* Configurator.hasSquelch, by configurator class.
hasSquelch(config) == config \in {"ConfigNBFM", "ConfigAM", "ConfigSSB"}

\* Configurator.getSquelch, by configurator class.
getSquelch(config, m) ==
  IF config \in {"ConfigNBFM", "ConfigAM", "ConfigSSB"} THEN m.squelch ELSE 0

(***************************************************************************)
(* Mode pipelines (DemodWBFM, DemodNBFM, DemodAM, DemodSSB, DemodCW).      *)
(***************************************************************************)
\* new reg.demod(inRate, outRate, mode): a fresh pipeline instance.
newDemod(cls, id, inR, outR, m) ==
  [cls |-> cls, id |-> id, mode |-> m, inRate |-> inR, outRate |-> outR,
   sideband |-> IF cls = "DemodSSB"
                THEN (IF m.scheme = "USB" THEN "Upper" ELSE "Lower")
                ELSE "None",
   blocks |-> 0]

\* Demod.setMode: the instance keeps its filter state and takes the new mode.
demodSetMode(d, m) == [d EXCEPT !.mode = m]

\* Audio produced by the resamplers for a block: n samples.
Mono(n) == [i \in 1..n |-> i]
Diff(n) == [i \in 1..n |-> 1]
Zeros(n) == [i \in 1..n |-> 0]

\* Mutant of demodulate: every pipeline reports the pilot it is told of.
demodulate_anyStereo(d, n, found, snr) ==
  [left |-> Mono(n), right |-> Mono(n), stereo |-> found, snr |-> snr]

\* Demod.demodulate: the Demodulated record {left, right, stereo, snr}.
demodulate(d, n, found, snr) ==
  IF d.cls = "DemodWBFM"
  THEN LET stereoOut == d.mode.stereo /\ found
       IN [left |-> IF stereoOut THEN [i \in 1..n |-> Mono(n)[i] + Diff(n)[i]] ELSE Mono(n),
           right |-> IF stereoOut THEN [i \in 1..n |-> Mono(n)[i] - Diff(n)[i]] ELSE Mono(n),
           stereo |-> stereoOut,
           snr |-> snr]
  ELSE [left |-> Mono(n), right |-> Mono(n), stereo |-> FALSE, snr |-> snr]

\* Mutant of applySquelch: the tail test is countdown >= 0.
applySquelch_tailAtZero(cd, reg, m, left, right, snr) ==
  LET r == getRegisteredDemod(reg, m.scheme)
      params == r.config
  IN IF ~r.ok
     THEN [ok |-> FALSE, countdown |-> cd, left |-> left, right |-> right]
     ELSE IF ~hasSquelch(params)
     THEN [ok |-> TRUE, countdown |-> cd, left |-> left, right |-> right]
     ELSE IF getSquelch(params, m) < snr
     THEN [ok |-> TRUE, countdown |-> SQUELCH_TAIL_TENTHS * PlayerSampleRate, left |-> left, right |-> right]
     ELSE IF cd >= 0
     THEN [ok |-> TRUE, countdown |-> cd - 10 * Len(left), left |-> left, right |-> right]
     ELSE [ok |-> TRUE, countdown |-> cd, left |-> Zeros(Len(left)), right |-> Zeros(Len(right))]

\* Mutant of applySquelch: the tail is shortened by one sample per block.
applySquelch_oneSample(cd, reg, m, left, right, snr) ==
  LET r == getRegisteredDemod(reg, m.scheme)
      params == r.config
  IN IF ~r.ok
     THEN [ok |-> FALSE, countdown |-> cd, left |-> left, right |-> right]
     ELSE IF ~hasSquelch(params)
     THEN [ok |-> TRUE, countdown |-> cd, left |-> left, right |-> right]
     ELSE IF getSquelch(params, m) < snr
     THEN [ok |-> TRUE, countdown |-> SQUELCH_TAIL_TENTHS * PlayerSampleRate, left |-> left, right |-> right]
     ELSE IF cd > 0
     THEN [ok |-> TRUE, countdown |-> cd - 10, left |-> left, right |-> right]
     ELSE [ok |-> TRUE, countdown |-> cd, left |-> Zeros(Len(left)), right |-> Zeros(Len(right))]

(***************************************************************************)
(* SquelchControl.applySquelch.  The countdown is kept in tenths of a      *)
(* sample, so that SQUELCH_TAIL * sampleRate = 0.1 * sampleRate is exact.  *)
(* modeParameters(mode) comes first and throws when the mode's scheme is   *)
(* not registered: [ok |-> FALSE], with the gate and the block untouched.  *)
(***************************************************************************)
applySquelch(cd, reg, m, left, right, snr) ==
  LET r == getRegisteredDemod(reg, m.scheme)
      params == r.config
  IN IF ~r.ok
     THEN [ok |-> FALSE, countdown |-> cd, left |-> left, right |-> right]
     ELSE IF ~hasSquelch(params)
     THEN [ok |-> TRUE, countdown |-> cd, left |-> left, right |-> right]
     ELSE IF getSquelch(params, m) < snr
     THEN [ok |-> TRUE, countdown |-> SQUELCH_TAIL_TENTHS * PlayerSampleRate, left |-> left, right |-> right]
     ELSE IF cd > 0
     THEN [ok |-> TRUE, countdown |-> cd - 10 * Len(left), left |-> left, right |-> right]
     ELSE [ok |-> TRUE, countdown |-> cd, left |-> Zeros(Len(left)), right |-> Zeros(Len(right))]

(***************************************************************************)
(* Demodulator.                                                            *)
(***************************************************************************)
\* Mutant of getScheme: a pipeline is constructed for every call.
getScheme_alwaysNew(reg, inR, m, cur, id) ==
  LET r == getRegisteredDemod(reg, m.scheme)
  IN IF r.ok
     THEN [ok |-> TRUE, demod |-> newDemod(r.demod, id, inR, PlayerSampleRate, m), made |-> 1]
     ELSE [ok |-> FALSE, demod |-> IF cur = << >> THEN newDemod("", 0, 0, 0, m) ELSE cur[1], made |-> 0]

\* Mutant of getScheme: the pipeline is kept when the new scheme is served by
\* the same pipeline class.
getScheme_sameClass(reg, inR, m, cur, id) ==
  LET r == getRegisteredDemod(reg, m.scheme)
  IN IF cur # << >> /\ r.ok /\ r.demod = cur[1].cls
     THEN [ok |-> TRUE, demod |-> demodSetMode(cur[1], m), made |-> 0]
     ELSE IF r.ok
     THEN [ok |-> TRUE, demod |-> newDemod(r.demod, id, inR, PlayerSampleRate, m), made |-> 1]
     ELSE [ok |-> FALSE, demod |-> IF cur = << >> THEN newDemod("", 0, 0, 0, m) ELSE cur[1], made |-> 0]

\* Demodulator.getScheme(mode, demod?): cur is << >> (undefined) or <<demod>>.
getScheme(reg, inR, m, cur, id) ==
  IF cur # << >> /\ m.scheme = cur[1].mode.scheme
  THEN [ok |-> TRUE, demod |-> demodSetMode(cur[1], m), made |-> 0]
  ELSE LET r == getRegisteredDemod(reg, m.scheme)
       IN IF r.ok
          THEN [ok |-> TRUE, demod |-> newDemod(r.demod, id, inR, PlayerSampleRate, m), made |-> 1]
          ELSE [ok |-> FALSE, demod |-> IF cur = << >> THEN newDemod("", 0, 0, 0, m) ELSE cur[1], made |-> 0]

DemodulatorInit ==
  /\ registeredDemods = DefaultRegistry
  /\ inRate = InitialInRate
  /\ mode = getMode(DefaultRegistry, "WBFM")
  /\ demod = getScheme(DefaultRegistry, InitialInRate, getMode(DefaultRegistry, "WBFM"), << >>, 1).demod
  /\ frequencyOffset = 0
  /\ latestStereo = FALSE
  /\ expectingFrequency = << >>
  /\ countdown = 0
  /\ nextId = 2
  /\ nReceived = 0
  /\ played = << >>
  /\ lastCall = << >>
  /\ tail = [seenHigh |-> FALSE, lowSince |-> 0]
  /\ tunerFreq = 0
  /\ retunes = << >>
  /\ paired = [c \in Centers |-> 0]
  /\ running = TRUE
  /\ inFlight = 2
  /\ pc = "idle"

\* No registry request has been made.
CallInit == thrown = << >>

\* No configurator is in use: one for the default WBFM mode, untouched.
ConfigInit ==
  /\ heap = << >>
  /\ cfg = [config |-> "ConfigWBFM", ref |-> 0, scheme |-> "WBFM"]
  /\ given = 0
  /\ lastSet = << >>

\* new DemodWBFM(inRate, outRate, getMode("WBFM")): both de-emphasis filters
\* start from 0.
WbfmInit ==
  /\ wb = [stereo |-> TRUE, leftVal |-> 0, rightVal |-> 0, blocks |-> 0, stereoBlocks |-> 0]
  /\ wbOut = << >>

\* No block has been measured: the default pipeline and an empty block.
LengthInit ==
  /\ lengthCase = [scheme |-> "WBFM", inRate |-> InitialInRate, outRate |-> 48000, n |-> 0]
  /\ lengthOut = << >>

\* new SampleCounter(): no clicksPerSecond.
CounterInit ==
  /\ counter = [clicksPerSecond |-> << >>, sampleRate |-> InitialInRate,
                samplesPerClick |-> << >>, countedSamples |-> 0]
  /\ clicks = [total |-> 0, calls |-> 0, events |-> 0, last |-> 0, fixedRate |-> TRUE]

\* new FakeRtlDevice(generator): gain = null, gainMultiplier = 1; nothing read yet.
FakeInit ==
  /\ fake = [gain |-> << >>, gainMultiplier |-> 1]
  /\ bytes = << >>
  /\ trip = [b |-> 0, f |-> << >>]

\* The players a Demodulator can end up with: 0 is the AudioPlayer it makes
\* itself, 1 is a player supplied by the caller.
PlayerIds == {0, 1}

\* new Demodulator(): no argument, the AudioPlayer is in use; its sample
\* rate, set by the audio hardware, is << >>.
PlayerInit ==
  sink = [arg |-> [kind |-> "undefined"], player |-> 0, sampleRate |-> << >>,
          volume |-> [i \in PlayerIds |-> 0], plays |-> [i \in PlayerIds |-> 0],
          got |-> << >>]

\* The registerDemod calls made by importing demodulator.ts.
ImportCalls ==
  [i \in 1..Len(DefaultRegistry) |->
     [op |-> "register", name |-> DefaultRegistry[i].name,
      demod |-> DefaultRegistry[i].demod, config |-> DefaultRegistry[i].config]]

\* The module demodulator.ts has been imported; getSchemes() was not called.
SchemesInit == schemes = [log |-> ImportCalls, got |-> << >>]

\* A receiver that is not a CompositeReceiver, and one that is.
Leaf(id) == [composite |-> FALSE, id |-> id, receivers |-> << >>]
Composite(list) == [composite |-> TRUE, id |-> 0, receivers |-> list]

\* CompositeReceiver.of was not called: the receiver is receiver 1 alone.
CompositeInit ==
  comp = [receiver |-> Leaf(1), tree |-> Leaf(1), ofs |-> 0, last |-> << >>, calls |-> << >>]

\* No call has been made on the Demodulator.
LogInit == opLog = << >>

\* No block has been delivered; the first pipeline's shifter is at phase 0.
IoInit ==
  io = [pipeline |-> 1, theta |-> 0, delivered |-> << >>,
        after |-> [angles |-> << >>, reused |-> FALSE]]

\* Number of taps of the CW audio filter when the options give none.
DefaultAudioTaps == 351

\* makeLowPassKernel(sampleRate, cornerFreq, kernelSize): the kernel, held
\* as its length and what it was computed for.
makeLowPassKernel(sampleRate, cornerFreq, kernelSize) ==
  [length |-> kernelSize, sampleRate |-> sampleRate, cornerFreq |-> cornerFreq]

\* new DemodCW(inRate, outRate, mode, options): options is << >> or
\* <<audioTaps>>; audioTaps = options?.audioTaps || 351.
newDemodCW(outRate, m, options) ==
  LET audioTaps == IF options # << >> /\ options[1] # 0 THEN options[1] ELSE DefaultAudioTaps
      kernel == makeLowPassKernel(outRate, m.bandwidth \div 2, audioTaps)
  IN [options |-> options, audioTaps |-> audioTaps, outRate |-> outRate, mode |-> m,
      filterI |-> kernel, filterQ |-> kernel, sets |-> 0, blocks |-> 0]

\* new DemodCW(1024000, 48000, getMode("CW")), without options.
CwInit ==
  cw = newDemodCW(48000, [scheme |-> "CW", bandwidth |-> DefaultBandwidthCW], << >>)

LaterInit ==
  /\ PlayerInit
  /\ SchemesInit
  /\ CompositeInit
  /\ LogInit
  /\ IoInit
  /\ CwInit

Init ==
  /\ DemodulatorInit
  /\ CallInit
  /\ ConfigInit
  /\ WbfmInit
  /\ LengthInit
  /\ CounterInit
  /\ FakeInit
  /\ LaterInit

\* Mutant of setMode: the squelch tail is ended.
setMode_endTail(m) ==
  LET s == getScheme(registeredDemods, inRate, m, <<demod>>, nextId)
  IN /\ s.ok
     /\ nextId + s.made <= MaxDemods + 1
     /\ demod' = s.demod
     /\ nextId' = nextId + s.made
     /\ mode' = m
     /\ countdown' = 0
     /\ UNCHANGED <<registeredDemods, inRate, frequencyOffset, latestStereo,
                    expectingFrequency, nReceived, played, lastCall, tail>>

\* Demodulator.setMode(mode)
setMode(m) ==
  LET s == getScheme(registeredDemods, inRate, m, <<demod>>, nextId)
  IN /\ s.ok
     /\ nextId + s.made <= MaxDemods + 1
     /\ demod' = s.demod
     /\ nextId' = nextId + s.made
     /\ mode' = m
     /\ UNCHANGED <<registeredDemods, inRate, frequencyOffset, latestStereo,
                    expectingFrequency, countdown, nReceived, played, lastCall, tail>>

\* Mutant of setFrequencyOffset: a pending tuple is dropped.
setFrequencyOffset_dropPending(offset) ==
  /\ frequencyOffset' = offset
  /\ expectingFrequency' = << >>
  /\ UNCHANGED <<registeredDemods, inRate, mode, demod, latestStereo,
                 countdown, nextId, nReceived, played, lastCall, tail>>

\* Demodulator.setFrequencyOffset(offset)
setFrequencyOffset(offset) ==
  /\ frequencyOffset' = offset
  /\ UNCHANGED <<registeredDemods, inRate, mode, demod, latestStereo,
                 expectingFrequency, countdown, nextId, nReceived, played, lastCall, tail>>

\* Demodulator.expectFrequencyAndSetOffset(center, offset)
expectFrequencyAndSetOffset(center, offset) ==
  /\ expectingFrequency' = <<[center |-> center, offset |-> offset]>>
  /\ UNCHANGED <<registeredDemods, inRate, mode, demod, frequencyOffset, latestStereo,
                 countdown, nextId, nReceived, played, lastCall, tail>>

\* Demodulator.setSampleRate(sampleRate): this.inRate is assigned first, so
\* when getScheme throws (the mode's scheme is no longer registered) the
\* rate has changed and the active pipeline is still the old one.
setSampleRate(sampleRate) ==
  LET s == getScheme(registeredDemods, sampleRate, mode, << >>, nextId)
  IN /\ nextId + s.made <= MaxDemods + 1
     /\ inRate' = sampleRate
     /\ demod' = IF s.ok THEN s.demod ELSE demod
     /\ nextId' = nextId + s.made
     /\ UNCHANGED <<registeredDemods, mode, frequencyOffset, latestStereo,
                    expectingFrequency, countdown, nReceived, played, lastCall, tail>>

\* History of the squelch gate: whether a high-SNR block has been seen, and
\* the total length (in tenths of a sample) of the low-SNR blocks since it.
tailAfter(t, reg, m, n, snr) ==
  LET params == getRegisteredDemod(reg, m.scheme).config
  IN IF ~hasSquelch(params) THEN t
     ELSE IF getSquelch(params, m) < snr THEN [seenHigh |-> TRUE, lowSince |-> 0]
     ELSE [t EXCEPT !.lowSince = IF t.seenHigh THEN @ + 10 * n ELSE @]

\* Player.play(left, right): the log of play calls.
play(log, seq) == Append(log, seq)

\* Mutant of applyExpected: the pending tuple is not cleared.
applyExpected_keep(expecting, offset, frequency) ==
  IF expecting # << >> /\ expecting[1].center = frequency
  THEN [offset |-> expecting[1].offset, expecting |-> expecting, applied |-> TRUE]
  ELSE [offset |-> offset, expecting |-> expecting, applied |-> FALSE]

\* receiveSamples, the deferred offset: the offset to demodulate with and the
\* pending tuple afterwards.
applyExpected(expecting, offset, frequency) ==
  IF expecting # << >> /\ expecting[1].center = frequency
  THEN [offset |-> expecting[1].offset, expecting |-> << >>, applied |-> TRUE]
  ELSE [offset |-> offset, expecting |-> expecting, applied |-> FALSE]

\* Mutant of stereoChanged: an event for every stereo block.
stereoChanged_whenStereo(stereo, latest) == stereo

\* receiveSamples, the stereo-status test.
stereoChanged(stereo, latest) == stereo # latest

\* Demodulator.receiveSamples(I, Q, frequency).  When applySquelch throws
\* (the mode's scheme is no longer registered) the call ends there: the
\* offset has been applied and the block demodulated, but nothing is played
\* and no event is raised.
receiveSamples(frequency, n, found, snr) ==
  LET e == applyExpected(expectingFrequency, frequencyOffset, frequency)
      d == demodulate(demod, n, found, snr)
      sq == applySquelch(countdown, registeredDemods, mode, d.left, d.right, d.snr)
      changed == sq.ok /\ stereoChanged(d.stereo, latestStereo)
  IN /\ nReceived < MaxBlocks
     /\ frequencyOffset' = e.offset
     /\ expectingFrequency' = e.expecting
     /\ demod' = [demod EXCEPT !.blocks = @ + 1]
     /\ countdown' = sq.countdown
     /\ played' = IF sq.ok THEN play(played, nReceived + 1) ELSE played
     /\ latestStereo' = IF changed THEN d.stereo ELSE latestStereo
     /\ nReceived' = nReceived + 1
     /\ lastCall' = <<[frequency |-> frequency, applied |-> e.applied, offset |-> e.offset,
                      demodId |-> demod.id,
                      left |-> d.left, right |-> d.right, stereo |-> d.stereo, snr |-> d.snr,
                      playedLeft |-> IF sq.ok THEN sq.left ELSE << >>,
                      playedRight |-> IF sq.ok THEN sq.right ELSE << >>,
                      thrown |-> ~sq.ok,
                      trace |-> <<"demodulate", "applySquelch">>
                                \o (IF sq.ok THEN <<"play">> ELSE << >>)
                                \o (IF changed THEN <<"stereo-status">> ELSE << >>),
                      event |-> IF changed THEN <<d.stereo>> ELSE << >>]>>
     /\ tail' = IF sq.ok THEN tailAfter(tail, registeredDemods, mode, n, d.snr) ELSE tail
     /\ UNCHANGED <<registeredDemods, inRate, mode, nextId>>

(***************************************************************************)
(* The Demodulator driven through its public methods.                      *)
(***************************************************************************)
SetMode == \E m \in Modes : setMode(m) /\ UNCHANGED <<tunerVars, readVars, otherVars>>
SetFrequencyOffset == \E o \in Offsets : setFrequencyOffset(o) /\ UNCHANGED <<tunerVars, readVars, otherVars>>
ExpectFrequencyAndSetOffset ==
  \E c \in Centers, o \in Offsets :
    expectFrequencyAndSetOffset(c, o) /\ UNCHANGED <<tunerVars, readVars, otherVars>>
SetSampleRate == \E r \in InRates : setSampleRate(r) /\ UNCHANGED <<tunerVars, readVars, otherVars>>
ReceiveSamples ==
  \E f \in Centers, n \in BlockLens, found \in BOOLEAN, snr \in Snrs :
    receiveSamples(f, n, found, snr) /\ UNCHANGED <<tunerVars, readVars, otherVars>>

Next ==
  \/ SetMode
  \/ SetSampleRate
  \/ ReceiveSamples

Spec == Init /\ [][Next]_vars

(***************************************************************************)
(* The frequency offset: setFrequencyOffset, expectFrequencyAndSetOffset   *)
(* and blocks of any centre frequency.                                     *)
(***************************************************************************)
NextOffset ==
  \/ SetFrequencyOffset
  \/ ExpectFrequencyAndSetOffset
  \/ ReceiveSamples

SpecOffset == Init /\ [][NextOffset]_vars

(***************************************************************************)
(* Retuning: the program calls expectFrequencyAndSetOffset(c, o) and then  *)
(* asks the radio for centre frequency c; the tuner changes frequency      *)
(* later, and every block carries the centre frequency it was captured at. *)
(***************************************************************************)
Retune ==
  \E c \in Centers, o \in Offsets :
    /\ Len(retunes) < MaxRetunes
    /\ c # (IF retunes = << >> THEN tunerFreq ELSE retunes[Len(retunes)])
    /\ expectFrequencyAndSetOffset(c, o)
    /\ retunes' = Append(retunes, c)
    /\ paired' = [paired EXCEPT ![c] = o]
    /\ UNCHANGED <<tunerFreq, readVars, otherVars>>

TunerRetunes ==
  /\ retunes # << >>
  /\ tunerFreq' = Head(retunes)
  /\ retunes' = Tail(retunes)
  /\ UNCHANGED <<demodVars, paired, readVars, otherVars>>

TunerBlock ==
  \E n \in BlockLens, found \in BOOLEAN, snr \in Snrs :
    receiveSamples(tunerFreq, n, found, snr) /\ UNCHANGED <<tunerVars, readVars, otherVars>>

NextRetune ==
  \/ Retune
  \/ TunerRetunes
  \/ TunerBlock

SpecRetune == Init /\ [][NextRetune]_vars

(***************************************************************************)
(* The continuous read loop (docs/lowlevel.md, "Read samples               *)
(* continuously"): two readSamples() calls are started, and processSamples *)
(* runs when one of them resolves.  Init is the state after the two first  *)
(* calls.  The block is handed to the Demodulator as the sample receiver.  *)
(***************************************************************************)
\* A readSamples() promise resolves and its then() callback is entered.
ReadResolves ==
  /\ pc = "idle"
  /\ inFlight > 0
  /\ running => nReceived < MaxBlocks
  /\ inFlight' = inFlight - 1
  /\ pc' = "processSamples"
  /\ UNCHANGED <<demodVars, tunerVars, otherVars, running>>

\* Mutant of ReturnStopped: the callback of a stopped loop starts a read.
ReturnStopped_reissue ==
  /\ pc = "processSamples"
  /\ ~running
  /\ inFlight' = inFlight + 1
  /\ pc' = "idle"
  /\ UNCHANGED <<demodVars, tunerVars, otherVars, running>>

\* processSamples: if (!running) return;
ReturnStopped ==
  /\ pc = "processSamples"
  /\ ~running
  /\ pc' = "idle"
  /\ UNCHANGED <<demodVars, tunerVars, otherVars, running, inFlight>>

\* Mutant of IssueRead: the callback does not start a new read.
IssueRead_none ==
  /\ pc = "processSamples"
  /\ running
  /\ pc' = "process"
  /\ UNCHANGED <<demodVars, tunerVars, otherVars, running, inFlight>>

\* processSamples: device.readSamples(65536).then(processSamples);
IssueRead ==
  /\ pc = "processSamples"
  /\ running
  /\ inFlight' = inFlight + 1
  /\ pc' = "process"
  /\ UNCHANGED <<demodVars, tunerVars, otherVars, running>>

\* processSamples: do something with the samples.
ProcessBlock ==
  /\ pc = "process"
  /\ \E f \in Centers, n \in BlockLens, found \in BOOLEAN, snr \in Snrs :
       receiveSamples(f, n, found, snr)
  /\ pc' = "idle"
  /\ UNCHANGED <<tunerVars, otherVars, running, inFlight>>

\* The program sets running to false, between two callbacks.
Stop ==
  /\ pc = "idle"
  /\ running
  /\ running' = FALSE
  /\ UNCHANGED <<demodVars, tunerVars, otherVars, inFlight, pc>>

NextRead ==
  \/ ReadResolves
  \/ ReturnStopped
  \/ IssueRead
  \/ ProcessBlock
  \/ Stop

SpecRead == Init /\ [][NextRead]_vars

\* The read loop with the scheduling of the device and of the event loop:
\* an outstanding read resolves, and an entered callback runs its first test.
SpecReadFair ==
  /\ SpecRead
  /\ WF_vars(ReadResolves)
  /\ WF_vars(ReturnStopped)

(***************************************************************************)
(* The registry in use: schemes are registered and unregistered while the  *)
(* program asks for modes, pipelines and configurators by scheme name.     *)
(* thrown holds the outcome of the latest request made since the registry  *)
(* last changed.                                                           *)
(***************************************************************************)
Schemes == {"WBFM", "NBFM", "AM", "USB", "LSB", "CW"}
RegSchemes == {"WBFM", "CW"}

\* Blocks received while the registry is being changed.
MaxRegistryBlocks == 1
Registrations == {DefaultRegistry[i] : i \in {j \in 1..Len(DefaultRegistry) : DefaultRegistry[j].name \in RegSchemes}}

controllerVars == <<inRate, mode, demod, frequencyOffset, latestStereo, expectingFrequency,
                    countdown, nextId, nReceived, played, lastCall, tail>>

\* Mutant of registerDemod: an existing name is deleted and added again.
registerDemod_moveToEnd(reg, name, demodCls, config) ==
  LET keep(e) == e.name # name
  IN Append(SelectSeq(reg, keep), [name |-> name, demod |-> demodCls, config |-> config])

\* registerDemod: Map.set replaces the value of an existing key in place
\* and appends a new key.
registerDemod(reg, name, demodCls, config) ==
  LET entry == [name |-> name, demod |-> demodCls, config |-> config]
  IN IF \E i \in 1..Len(reg) : reg[i].name = name
     THEN [i \in 1..Len(reg) |-> IF reg[i].name = name THEN entry ELSE reg[i]]
     ELSE Append(reg, entry)

\* unregisterDemod: Map.delete.
unregisterDemod(reg, name) ==
  LET keep(e) == e.name # name
  IN SelectSeq(reg, keep)

\* The outcome of a request that reaches getRegisteredDemod.
request(op, scheme) ==
  <<[op |-> op, scheme |-> scheme, error |-> ~getRegisteredDemod(registeredDemods, scheme).ok]>>

RegisterDemod ==
  \E e \in Registrations :
    /\ registeredDemods' = registerDemod(registeredDemods, e.name, e.demod, e.config)
    /\ thrown' = << >>
    /\ UNCHANGED <<controllerVars, tunerVars, readVars, cfgVars, wbfmVars, lengthVars, counterVars, fakeVars, laterVars>>

UnregisterDemod ==
  \E name \in RegSchemes :
    /\ registeredDemods' = unregisterDemod(registeredDemods, name)
    /\ thrown' = << >>
    /\ UNCHANGED <<controllerVars, tunerVars, readVars, cfgVars, wbfmVars, lengthVars, counterVars, fakeVars, laterVars>>

\* modes.getMode(scheme)
GetMode ==
  \E scheme \in Schemes :
    /\ thrown' = request("getMode", scheme)
    /\ UNCHANGED <<demodVars, tunerVars, readVars, cfgVars, wbfmVars, lengthVars, counterVars, fakeVars, laterVars>>

\* modes.getDemod(inRate, outRate, mode)
GetDemod ==
  \E m \in Modes :
    /\ thrown' = request("getDemod", m.scheme)
    /\ UNCHANGED <<demodVars, tunerVars, readVars, cfgVars, wbfmVars, lengthVars, counterVars, fakeVars, laterVars>>

\* modes.modeParameters(mode)
ModeParameters ==
  \E m \in Modes :
    /\ thrown' = request("modeParameters", m.scheme)
    /\ UNCHANGED <<demodVars, tunerVars, readVars, cfgVars, wbfmVars, lengthVars, counterVars, fakeVars, laterVars>>

\* Demodulator.setMode(mode), with the exception getScheme may raise: the
\* assignments to this.demod and this.mode are not reached.
SetModeOrThrow ==
  \E m \in Modes :
    LET s == getScheme(registeredDemods, inRate, m, <<demod>>, nextId)
    IN /\ IF s.ok
          THEN setMode(m)
          ELSE UNCHANGED demodVars
       /\ thrown' = <<[op |-> "setMode", scheme |-> m.scheme, error |-> ~s.ok]>>
       /\ UNCHANGED <<tunerVars, readVars, cfgVars, wbfmVars, lengthVars, counterVars, fakeVars, laterVars>>

\* Demodulator.receiveSamples(I, Q, frequency), with the exception
\* applySquelch may raise through modeParameters(this.mode).
ReceiveSamplesOrThrow ==
  \E snr \in {5} :
    /\ nReceived < MaxRegistryBlocks
    /\ receiveSamples(0, 2, FALSE, snr)
    /\ thrown' = request("receiveSamples", mode.scheme)
    /\ UNCHANGED <<tunerVars, readVars, cfgVars, wbfmVars, lengthVars, counterVars, fakeVars, laterVars>>

\* Demodulator.setSampleRate(sampleRate), with the exception getScheme may
\* raise after this.inRate has been assigned.
SetSampleRateOrThrow ==
  \E r \in InRates :
    /\ setSampleRate(r)
    /\ thrown' = request("setSampleRate", mode.scheme)
    /\ UNCHANGED <<tunerVars, readVars, cfgVars, wbfmVars, lengthVars, counterVars, fakeVars, laterVars>>

NextRegistry ==
  \/ RegisterDemod
  \/ UnregisterDemod
  \/ GetMode
  \/ GetDemod
  \/ ModeParameters
  \/ SetModeOrThrow
  \/ SetSampleRateOrThrow
  \/ ReceiveSamplesOrThrow

SpecRegistry == Init /\ [][NextRegistry]_vars

(***************************************************************************)
(* Configurators (ConfigWBFM, ConfigNBFM, ConfigAM, ConfigSSB, ConfigCW).  *)
(* A JavaScript number is [nan, v]: NaN, or the value v / 2 (v counts      *)
(* halves, so that bandwidth / 2 of an integer is exact).  Mode records    *)
(* are objects: a reference is an index into heap.                         *)
(***************************************************************************)
MaxSets == 2

NaN == [nan |-> TRUE, v |-> 0]
Num(x) == [nan |-> FALSE, v |-> 2 * x]
NumberInputs == {-1000000000, -1, 0, 3, 6, 7, 249, 250, 251, 1001, 15001, 30000, 30001, 1000000000}
Numbers == {NaN} \cup {Num(x) : x \in NumberInputs}

\* Math.min and Math.max: NaN if an argument is NaN.
MathMin(a, b) == IF a.nan \/ b.nan THEN NaN ELSE IF a.v <= b.v THEN a ELSE b
MathMax(a, b) == IF a.nan \/ b.nan THEN NaN ELSE IF a.v >= b.v THEN a ELSE b
\* x / 2 and 2 * x.
Half(a) == IF a.nan THEN NaN ELSE [nan |-> FALSE, v |-> a.v \div 2]
Twice(a) == IF a.nan THEN NaN ELSE [nan |-> FALSE, v |-> 2 * a.v]

\* A mode record with its numeric fields as JavaScript numbers.
asObject(m) == [f \in DOMAIN m |-> IF f \in {"scheme", "stereo"} THEN m[f] ELSE Num(m[f])]

\* The records handed to modeParameters: the default mode of each scheme and
\* a second mode of each scheme.
GivenModes ==
  {asObject(create(getRegisteredDemod(DefaultRegistry, sch).config, sch)) : sch \in Schemes}
  \cup {asObject(m) : m \in {[scheme |-> "WBFM", stereo |-> FALSE],
                            [scheme |-> "NBFM", maxF |-> 2500, squelch |-> 3],
                            [scheme |-> "CW", bandwidth |-> 100]}}

\* Configurator.mode (getter): a configurator built from a scheme name
\* creates the default mode at the first use.
modeOf(h, c) ==
  IF c.ref = 0
  THEN [heap |-> Append(h, asObject(create(c.config, c.scheme))),
        cfg |-> [c EXCEPT !.ref = Len(h) + 1]]
  ELSE [heap |-> h, cfg |-> c]

\* Mutant of spread: the field is assigned in the record the configurator
\* holds.
spread_inPlace(h, c, field, value) ==
  LET g == modeOf(h, c)
  IN [heap |-> [g.heap EXCEPT ![g.cfg.ref][field] = value], cfg |-> g.cfg]

\* this.mode = { ...this.mode, field: value }: a new record is allocated and
\* becomes the configurator's base.
spread(h, c, field, value) ==
  LET g == modeOf(h, c)
  IN [heap |-> Append(g.heap, [g.heap[g.cfg.ref] EXCEPT ![field] = value]),
      cfg |-> [g.cfg EXCEPT !.ref = Len(g.heap) + 1]]

\* The record the configurator's mode property returns.
modeRecord(h, c) == LET g == modeOf(h, c) IN g.heap[g.cfg.ref]

\* setBandwidth of each configurator class; the base class returns this.
setBandwidth(h, c, bandwidth) ==
  CASE c.config = "ConfigNBFM" ->
         spread(h, c, "maxF", MathMax(Num(125), MathMin(Half(bandwidth), Num(15000))))
    [] c.config = "ConfigAM" ->
         spread(h, c, "bandwidth", MathMax(Num(250), MathMin(bandwidth, Num(30000))))
    [] c.config = "ConfigSSB" ->
         spread(h, c, "bandwidth", MathMax(Num(10), MathMin(bandwidth, Num(15000))))
    [] c.config = "ConfigCW" ->
         spread(h, c, "bandwidth", MathMax(Num(5), MathMin(bandwidth, Num(1000))))
    [] OTHER -> [heap |-> h, cfg |-> c]

\* getBandwidth of each configurator class.
getBandwidth(h, c) ==
  CASE c.config = "ConfigWBFM" -> Num(150000)
    [] c.config = "ConfigNBFM" -> Twice(modeRecord(h, c).maxF)
    [] OTHER -> modeRecord(h, c).bandwidth

\* setSquelch of each configurator class; the base class returns this.
setSquelch(h, c, squelch) ==
  IF c.config \in {"ConfigNBFM", "ConfigAM", "ConfigSSB"}
  THEN spread(h, c, "squelch", MathMax(Num(0), MathMin(squelch, Num(6))))
  ELSE [heap |-> h, cfg |-> c]

\* setStereo and getStereo: overridden by ConfigWBFM only.
setStereo(h, c, stereo) ==
  IF c.config = "ConfigWBFM"
  THEN spread(h, c, "stereo", stereo)
  ELSE [heap |-> h, cfg |-> c]

getStereo(h, c) ==
  IF c.config = "ConfigWBFM" THEN modeRecord(h, c).stereo ELSE FALSE

\* modeParameters(mode) and modeParameters(scheme): new reg.config(mode).
ConfiguratorInit ==
  /\ \/ \E m \in GivenModes :
          /\ heap = <<m>>
          /\ cfg = [config |-> getRegisteredDemod(DefaultRegistry, m.scheme).config,
                    ref |-> 1, scheme |-> m.scheme]
          /\ given = 1
     \/ \E sch \in Schemes :
          /\ heap = << >>
          /\ cfg = [config |-> getRegisteredDemod(DefaultRegistry, sch).config,
                    ref |-> 0, scheme |-> sch]
          /\ given = 0
  /\ lastSet = << >>

InitConfig ==
  /\ DemodulatorInit
  /\ CallInit
  /\ ConfiguratorInit
  /\ WbfmInit
  /\ LengthInit
  /\ CounterInit
  /\ FakeInit
  /\ LaterInit

SetBandwidth ==
  \E b \in Numbers :
    LET r == setBandwidth(heap, cfg, b)
    IN /\ Len(heap) <= MaxSets
       /\ heap' = r.heap
       /\ cfg' = r.cfg
       /\ lastSet' = <<[op |-> "setBandwidth", arg |-> b]>>
       /\ UNCHANGED <<demodVars, tunerVars, readVars, callVars, given, wbfmVars, lengthVars, counterVars, fakeVars, laterVars>>

SetSquelch ==
  \E x \in Numbers :
    LET r == setSquelch(heap, cfg, x)
    IN /\ Len(heap) <= MaxSets
       /\ heap' = r.heap
       /\ cfg' = r.cfg
       /\ lastSet' = <<[op |-> "setSquelch", arg |-> x]>>
       /\ UNCHANGED <<demodVars, tunerVars, readVars, callVars, given, wbfmVars, lengthVars, counterVars, fakeVars, laterVars>>

SetStereo ==
  \E b \in BOOLEAN :
    LET r == setStereo(heap, cfg, b)
    IN /\ Len(heap) <= MaxSets
       /\ heap' = r.heap
       /\ cfg' = r.cfg
       /\ lastSet' = <<[op |-> "setStereo", arg |-> b]>>
       /\ UNCHANGED <<demodVars, tunerVars, readVars, callVars, given, wbfmVars, lengthVars, counterVars, fakeVars, laterVars>>

\* Configurator.mode (getter), read by the caller or through getBandwidth,
\* getSquelch and getStereo: a base that is a scheme name is replaced by
\* the default mode record.
GetConfiguratorMode ==
  LET g == modeOf(heap, cfg)
  IN /\ heap' = g.heap
     /\ cfg' = g.cfg
     /\ lastSet' = <<[op |-> "mode", arg |-> NaN]>>
     /\ UNCHANGED <<demodVars, tunerVars, readVars, callVars, given, wbfmVars, lengthVars, counterVars, fakeVars, laterVars>>

NextConfig ==
  \/ SetBandwidth
  \/ SetSquelch
  \/ SetStereo
  \/ GetConfiguratorMode

SpecConfig == InitConfig /\ [][NextConfig]_vars

(***************************************************************************)
(* The WBFM pipeline in detail (DemodWBFM, DemodWBFMStage1,                *)
(* DemodWBFMStage2), with the state of its two de-emphasis filters.  Audio *)
(* samples are integers.                                                   *)
(***************************************************************************)
\* Deemphasizer: y[n] = y[n-1] + alpha * (x[n] - y[n-1]), here with
\* alpha = 1/2 on integers; the filter keeps y across blocks.
deemphStep(val, x) == val + ((x - val) \div 2)

RECURSIVE deemphVal(_, _, _)
deemphVal(val, samples, k) ==
  IF k = 0 THEN val ELSE deemphStep(deemphVal(val, samples, k - 1), samples[k])

\* Deemphasizer.inPlace(samples): the filtered block and the state left.
deemphInPlace(val, samples) ==
  [out |-> [i \in 1..Len(samples) |-> deemphVal(val, samples, i)],
   val |-> deemphVal(val, samples, Len(samples))]

\* DemodWBFMStage1.demodulate: the composite signal and the snr estimate.
DemodWBFMStage1_demodulate(n, snr1) ==
  [left |-> Mono(n), right |-> Mono(n), stereo |-> FALSE, snr |-> snr1]

\* DemodWBFMStage2.demodulate(samplesI) on a pipeline in state p; found is
\* the separator's answer for this block.
DemodWBFMStage2_demodulate(p, samplesI, found) ==
  LET n == Len(samplesI)
      separated == p.stereo /\ found
      leftAudio == IF separated THEN [i \in 1..n |-> samplesI[i] + Diff(n)[i]] ELSE samplesI
      rightAudio == IF separated THEN [i \in 1..n |-> samplesI[i] - Diff(n)[i]] ELSE samplesI
      l == deemphInPlace(p.leftVal, leftAudio)
      r == deemphInPlace(p.rightVal, rightAudio)
  IN [left |-> l.out, right |-> r.out, stereo |-> separated, snr |-> 1,
      preLeft |-> leftAudio, preRight |-> rightAudio,
      leftVal |-> l.val, rightVal |-> r.val]

\* Mutant of DemodWBFM_demodulate: the stage-2 record is returned as it is.
DemodWBFM_demodulate_stage2(p, n, found, snr1) ==
  DemodWBFMStage2_demodulate(p, DemodWBFMStage1_demodulate(n, snr1).left, found)

\* DemodWBFM.demodulate: o2.snr = o1.snr; return o2.
DemodWBFM_demodulate(p, n, found, snr1) ==
  LET o1 == DemodWBFMStage1_demodulate(n, snr1)
      o2 == DemodWBFMStage2_demodulate(p, o1.left, found)
  IN [o2 EXCEPT !.snr = o1.snr]

\* DemodWBFM.setMode(mode)
WbfmSetMode ==
  \E st \in BOOLEAN :
    /\ wb' = [wb EXCEPT !.stereo = st]
    /\ UNCHANGED <<wbOut, demodVars, tunerVars, readVars, callVars, cfgVars, lengthVars, counterVars, fakeVars, laterVars>>

\* DemodWBFM.demodulate(I, Q, freqOffset)
WbfmDemodulate ==
  \E n \in BlockLens, found \in BOOLEAN, snr1 \in Snrs :
    LET o == DemodWBFM_demodulate(wb, n, found, snr1)
    IN /\ wb.blocks < MaxBlocks
       /\ wb' = [wb EXCEPT !.leftVal = o.leftVal, !.rightVal = o.rightVal,
                           !.blocks = @ + 1,
                           !.stereoBlocks = IF o.stereo THEN @ + 1 ELSE @]
       /\ wbOut' = <<[left |-> o.left, right |-> o.right, stereo |-> o.stereo, snr |-> o.snr,
                      preLeft |-> o.preLeft, preRight |-> o.preRight,
                      requested |-> wb.stereo, found |-> found, snr1 |-> snr1,
                      leftBefore |-> wb.leftVal, rightBefore |-> wb.rightVal]>>
       /\ UNCHANGED <<demodVars, tunerVars, readVars, callVars, cfgVars, lengthVars, counterVars, fakeVars, laterVars>>

NextWbfm ==
  \/ WbfmSetMode
  \/ WbfmDemodulate

SpecWbfm == Init /\ [][NextWbfm]_vars

(***************************************************************************)
(* Lengths of the audio blocks.  The filters, discriminators, shifters and *)
(* gain controls work in place; only the downsamplers change the length.   *)
(***************************************************************************)
InterRateLimit == 336000
LengthSchemes == Schemes
LengthInRates == {2048000, InitialInRate, InterRateLimit, 256000}
LengthOutRates == {48000, 44100}
LengthBlocks == {64, 70, 512, 1000, 2000}

\* RealDownsampler.downsample and ComplexDownsampler.downsample: the length
\* of the output.
downsampleLength(len, inR, outR) == (len * outR) \div inR

\* The single-stage pipelines: one ComplexDownsampler(inRate, outRate).
singleStageLength(n, inR, outR) == downsampleLength(n, inR, outR)

\* DemodWBFM: stage 1 downsamples to interRate unless it is the input rate;
\* stage 2 downsamples the composite to the audio rate.
wbfmLength(n, inR, outR) ==
  LET interRate == IF inR <= InterRateLimit THEN inR ELSE InterRateLimit
      composite == IF inR # interRate THEN downsampleLength(n, inR, interRate) ELSE n
  IN downsampleLength(composite, interRate, outR)

audioLength(c) ==
  IF c.scheme = "WBFM"
  THEN wbfmLength(c.n, c.inRate, c.outRate)
  ELSE singleStageLength(c.n, c.inRate, c.outRate)

InitLength ==
  /\ DemodulatorInit
  /\ CallInit
  /\ ConfigInit
  /\ WbfmInit
  /\ lengthCase \in [scheme : LengthSchemes, inRate : LengthInRates,
                     outRate : LengthOutRates, n : LengthBlocks]
  /\ lengthOut = << >>
  /\ CounterInit
  /\ FakeInit
  /\ LaterInit

\* demodulate(I, Q, freqOffset) on a block of lengthCase.n samples.
MeasureLength ==
  /\ lengthOut' = <<audioLength(lengthCase)>>
  /\ UNCHANGED <<lengthCase, demodVars, tunerVars, readVars, callVars, cfgVars, wbfmVars, counterVars, fakeVars, laterVars>>

NextLength == MeasureLength

SpecLength == InitLength /\ [][NextLength]_vars

(***************************************************************************)
(* SampleCounter: a sample receiver that dispatches sample-click events.   *)
(* An optional number is << >> (undefined) or <<v>>.                       *)
(***************************************************************************)
ClicksPerSecond == {<< >>, <<20>>, <<204800>>}
CounterRates == {InitialInRate, 2048000}
CounterBlocks == {3, 12, 65536, 131072}

\* SampleCounter.getSamplesPerClick
getSamplesPerClick(c) ==
  IF c.clicksPerSecond = << >>
  THEN << >>
  ELSE <<c.sampleRate \div c.clicksPerSecond[1]>>

\* new SampleCounter(clicksPerSecond)
newSampleCounter(clicksPerSecond) ==
  LET c == [clicksPerSecond |-> clicksPerSecond, sampleRate |-> InitialInRate,
            samplesPerClick |-> << >>, countedSamples |-> 0]
  IN [c EXCEPT !.samplesPerClick = getSamplesPerClick(c)]

\* SampleCounter.setSampleRate(sampleRate)
counterSetSampleRate(c, sampleRate) ==
  LET d == [c EXCEPT !.sampleRate = sampleRate]
  IN [d EXCEPT !.samplesPerClick = getSamplesPerClick(d)]

\* Mutant of counterReceiveSamples: one click's worth of samples is taken
\* off the count.
counterReceiveSamples_subtract(c, len) ==
  LET counted == c.countedSamples + len
  IN IF c.samplesPerClick = << >> \/ c.samplesPerClick[1] > counted
     THEN [counter |-> [c EXCEPT !.countedSamples = counted], events |-> 0]
     ELSE [counter |-> [c EXCEPT !.countedSamples = counted - c.samplesPerClick[1]],
           events |-> 1]

\* SampleCounter.receiveSamples(I, Q) for a block of len samples: the new
\* state and the number of sample-click events dispatched.
counterReceiveSamples(c, len) ==
  LET counted == c.countedSamples + len
  IN IF c.samplesPerClick = << >> \/ c.samplesPerClick[1] > counted
     THEN [counter |-> [c EXCEPT !.countedSamples = counted], events |-> 0]
     ELSE [counter |-> [c EXCEPT !.countedSamples = counted % c.samplesPerClick[1]],
           events |-> 1]

InitCounter ==
  /\ DemodulatorInit
  /\ CallInit
  /\ ConfigInit
  /\ WbfmInit
  /\ LengthInit
  /\ FakeInit
  /\ LaterInit
  /\ \E k \in ClicksPerSecond : counter = newSampleCounter(k)
  /\ clicks = [total |-> 0, calls |-> 0, events |-> 0, last |-> 0, fixedRate |-> TRUE]

CounterSetSampleRate ==
  \E r \in CounterRates :
    /\ counter' = counterSetSampleRate(counter, r)
    /\ clicks' = [clicks EXCEPT !.fixedRate = @ /\ r = counter.sampleRate]
    /\ UNCHANGED <<demodVars, tunerVars, readVars, callVars, cfgVars, wbfmVars,
                   lengthVars, fakeVars, laterVars>>

CounterReceiveSamples ==
  \E len \in CounterBlocks :
    LET r == counterReceiveSamples(counter, len)
    IN /\ clicks.calls < MaxBlocks
       /\ counter' = r.counter
       /\ clicks' = [clicks EXCEPT !.total = @ + len, !.calls = @ + 1,
                                   !.events = @ + r.events, !.last = r.events]
       /\ UNCHANGED <<demodVars, tunerVars, readVars, callVars, cfgVars, wbfmVars,
                      lengthVars, fakeVars, laterVars>>

NextCounter ==
  \/ CounterSetSampleRate
  \/ CounterReceiveSamples

SpecCounter == InitCounter /\ [][NextCounter]_vars

(***************************************************************************)
(* The simulated tuner of the README, FakeRtlDevice, and the conversion of *)
(* its bytes back to floats.  A sample is an element of a Float32Array: it *)
(* is held as [m, e], the number m / 2^e with |m| <= 2^24, so that the     *)
(* rounding of every store into the array is the float32 rounding.         *)
(***************************************************************************)

\* Values the generator writes into I and Q: -2, -1.5, the floats just
\* beyond, at and just within -1, -0.5, -1/32, 0, and the same on the
\* positive side.
GeneratorValues ==
  {[m |-> -2, e |-> 0], [m |-> -3, e |-> 1], [m |-> -8388609, e |-> 23],
   [m |-> -1, e |-> 0], [m |-> -16777215, e |-> 24], [m |-> -1, e |-> 1],
   [m |-> -1, e |-> 5], [m |-> 0, e |-> 0], [m |-> 1, e |-> 5], [m |-> 1, e |-> 1],
   [m |-> 16777215, e |-> 24], [m |-> 1, e |-> 0], [m |-> 8388609, e |-> 23],
   [m |-> 3, e |-> 1], [m |-> 2, e |-> 0]}

\* A store of the number p / 2^e into a Float32Array element: the nearest
\* number with 24 significant bits, halves to the even one.  (|p| < 2^30.)
fround(p, e) ==
  IF -(2^24) <= p /\ p <= 2^24
  THEN [m |-> p, e |-> e]
  ELSE LET a == IF p < 0 THEN -p ELSE p
           s == CHOOSE k \in 1..6 : a < 2^(24 + k) /\ a >= 2^(23 + k)
           q == p \div 2^s
           r == p % 2^s
           up == r > 2^(s - 1) \/ (r = 2^(s - 1) /\ q % 2 = 1)
       IN [m |-> IF up THEN q + 1 ELSE q, e |-> e - s]

\* Long division: the quotient q and remainder r of a division by d, carried
\* on for k more binary digits.
RECURSIVE shiftDiv(_, _, _, _)
shiftDiv(q, r, d, k) ==
  IF k = 0 THEN <<q, r>>
  ELSE shiftDiv(2 * q + (2 * r) \div d, (2 * r) % d, d, k - 1)

\* Gains given to setGain: null (automatic) or a number of dB.
Gains == {<< >>, <<25>>, <<45>>}

\* Math.pow(10, (gain - 25) / 20) for the gains above.
pow10(gain) == CASE gain = 25 -> 1 [] gain = 45 -> 10

\* A store into a Uint8Array element: the integer modulo 256.
toUint8(x) == x % 256

\* FakeRtlDevice.setGain(gain)
setGain(dev, gain) ==
  IF gain # << >>
  THEN [gain |-> gain, gainMultiplier |-> pow10(gain[1])]
  ELSE [dev EXCEPT !.gain = gain]

\* I[i] = Math.max(-1, Math.min(I[i] * mul, 1)): the product is exact in
\* double precision, and the result is stored into the Float32Array.
clip(v, mul) ==
  LET p == v.m * mul
  IN IF v.e <= 30 /\ p >= 2^v.e THEN [m |-> 1, e |-> 0]
     ELSE IF v.e <= 30 /\ p <= -(2^v.e) THEN [m |-> -1, e |-> 0]
     ELSE fround(p, v.e)

\* I[i] = Math.round(((I[i] + 1) * 255) / 2).  The sum, the product and the
\* half are exact in double precision and Math.round(x) is floor(x + 1/2),
\* so the result is the integer 128 + floor(255 * m / 2^(e + 1)).
requantise(v) ==
  LET j == v.e + 1
      scaled == IF j >= 12
                THEN (255 * (v.m \div 4096) + (255 * (v.m % 4096)) \div 4096) \div 2^(j - 12)
                ELSE (255 * v.m) \div 2^j
  IN 128 + scaled

\* The function adaptSource returns, on one generated value: the clipping
\* is applied only when a gain is set.
adaptSource(dev, v) ==
  requantise(IF dev.gain # << >> THEN clip(v, dev.gainMultiplier) ELSE v)

\* FakeRtlDevice.readSamples, after the await: data[2 * i] = output.I[i];
\* data[2 * i + 1] = output.Q[i], stores into a Uint8Array.
store(out) == <<toUint8(out[1]), toUint8(out[2])>>

\* The variant that reads the byte as (b - 128) / 128.
U8ToFloat32_signed(b) == [m |-> b - 128, e |-> 7]

\* I[i] = (2 * u8[2 * i]) / 255 - 1, stored into a Float32Array: the float32
\* nearest to (2b - 255) / 255.  (The quotient and the difference are
\* rounded to double precision first; (2b - 255) / 255 is further than
\* 2^-40 from every number halfway between two float32 values, so this
\* does not change the float32 stored.)
U8ToFloat32(b) ==
  LET n == 2 * b - 255
      a == IF n < 0 THEN -n ELSE n
      e == CHOOSE k \in 24..31 : shiftDiv(0, a, 255, k)[1] >= 2^23
                                  /\ shiftDiv(0, a, 255, k)[1] < 2^24
      qr == shiftDiv(0, a, 255, e)
      m == IF 2 * qr[2] > 255 THEN qr[1] + 1 ELSE qr[1]
  IN IF a = 255 THEN [m |-> n \div 255, e |-> 0]
     ELSE [m |-> IF n < 0 THEN -m ELSE m, e |-> e]

InitFake ==
  /\ DemodulatorInit
  /\ CallInit
  /\ ConfigInit
  /\ WbfmInit
  /\ LengthInit
  /\ CounterInit
  /\ FakeInit
  /\ LaterInit

SetGain ==
  \E g \in Gains :
    /\ fake' = setGain(fake, g)
    /\ UNCHANGED <<bytes, trip, demodVars, tunerVars, readVars, callVars, cfgVars,
                   wbfmVars, lengthVars, counterVars, laterVars>>

\* readSamples(1) is called: the promise of source.readSamples is awaited,
\* and callbacks such as setGain run before the block is produced.  One
\* read is followed until it resolves.
ReadSamples ==
  /\ IF bytes = << >> THEN TRUE ELSE bytes[1].pc = "resolved"
  /\ bytes' = <<[pc |-> "called", I |-> [m |-> 0, e |-> 0], Q |-> [m |-> 0, e |-> 0],
                 gain |-> << >>, gainMultiplier |-> 1,
                 out |-> << >>, data |-> << >>]>>
  /\ UNCHANGED <<fake, trip, demodVars, tunerVars, readVars, callVars, cfgVars,
                 wbfmVars, lengthVars, counterVars, laterVars>>

\* The source runs the adapted generator for the pending read, inside the
\* call or any time after it: the gain is the one set at that moment.
GenerateSamples ==
  \E vI \in GeneratorValues, vQ \in GeneratorValues :
    /\ bytes # << >>
    /\ bytes[1].pc = "called"
    /\ bytes' = <<[pc |-> "generated", I |-> vI, Q |-> vQ, gain |-> fake.gain,
                   gainMultiplier |-> fake.gainMultiplier,
                   out |-> <<adaptSource(fake, vI), adaptSource(fake, vQ)>>,
                   data |-> << >>]>>
    /\ UNCHANGED <<fake, trip, demodVars, tunerVars, readVars, callVars, cfgVars,
                   wbfmVars, lengthVars, counterVars, laterVars>>

\* The awaited promise resolves: the values are stored as bytes and the
\* block is returned.
ResolveRead ==
  /\ bytes # << >>
  /\ bytes[1].pc = "generated"
  /\ bytes' = <<[bytes[1] EXCEPT !.pc = "resolved", !.data = store(bytes[1].out)]>>
  /\ UNCHANGED <<fake, trip, demodVars, tunerVars, readVars, callVars, cfgVars,
                 wbfmVars, lengthVars, counterVars, laterVars>>

NextFake ==
  \/ SetGain
  \/ ReadSamples
  \/ GenerateSamples
  \/ ResolveRead

SpecFake == InitFake /\ [][NextFake]_vars

\* Every unsigned byte, before its conversion.
InitTrip ==
  /\ DemodulatorInit
  /\ CallInit
  /\ ConfigInit
  /\ WbfmInit
  /\ LengthInit
  /\ CounterInit
  /\ fake = [gain |-> << >>, gainMultiplier |-> 1]
  /\ bytes = << >>
  /\ \E b \in 0..255 : trip = [b |-> b, f |-> << >>]
  /\ LaterInit

\* The byte is converted to a float.
ConvertByte ==
  /\ trip.f = << >>
  /\ trip' = [trip EXCEPT !.f = <<U8ToFloat32(trip.b)>>]
  /\ UNCHANGED <<fake, bytes, demodVars, tunerVars, readVars, callVars, cfgVars,
                 wbfmVars, lengthVars, counterVars, laterVars>>

\* The source runs the adapted generator for the pending read, and the
\* generator writes the converted float into I and Q.
GenerateFloat ==
  /\ trip.f # << >>
  /\ bytes # << >>
  /\ bytes[1].pc = "called"
  /\ bytes' = <<[pc |-> "generated", I |-> trip.f[1], Q |-> trip.f[1], gain |-> fake.gain,
                 gainMultiplier |-> fake.gainMultiplier,
                 out |-> <<adaptSource(fake, trip.f[1]), adaptSource(fake, trip.f[1])>>,
                 data |-> << >>]>>
  /\ UNCHANGED <<fake, trip, demodVars, tunerVars, readVars, callVars, cfgVars,
                 wbfmVars, lengthVars, counterVars, laterVars>>

NextTrip ==
  \/ ConvertByte
  \/ SetGain
  \/ ReadSamples
  \/ GenerateFloat
  \/ ResolveRead

SpecTrip == InitTrip /\ [][NextTrip]_vars

(***************************************************************************)
(* The player of a Demodulator (empty-demodulator.ts constructor,          *)
(* player.ts).                                                             *)
(***************************************************************************)

\* Every group of variables of the sections above.
earlierVars == <<demodVars, tunerVars, readVars, callVars, cfgVars, wbfmVars,
                 lengthVars, counterVars, fakeVars>>

\* Sample rates of the players a caller supplies.
PlayerRates == {8000, 44100}

\* Volumes given to setVolume, in tenths.
Volumes == {0, 5, 10}

\* A Player object: ownPlay says whether "play" is an own property of the
\* object (an object literal) or is inherited from its class.
Players == [ownPlay : BOOLEAN, rate : PlayerRates]

\* Arguments of the constructor: nothing, a Player, or an options object
\* with or without a player.
ConstructorArgs ==
  {[kind |-> "undefined", self |-> << >>, player |-> << >>]}
  \cup {[kind |-> "player", self |-> <<p>>, player |-> << >>] : p \in Players}
  \cup {[kind |-> "options", self |-> << >>, player |-> << >>]}
  \cup {[kind |-> "options", self |-> << >>, player |-> <<p>>] : p \in Players}

\* Object.hasOwn(playerOrOptions, "play")
hasOwnPlay(arg) == arg.kind = "player" /\ arg.self[1].ownPlay

\* The player the caller supplied, << >> when none.
supplied(arg) == IF arg.kind = "player" THEN arg.self ELSE arg.player

\* The constructor's choice of player: the argument when it has an own
\* "play", else the argument's player property; << >> is undefined.
chosenPlayer(arg) ==
  IF arg.kind # "undefined" /\ hasOwnPlay(arg) THEN arg.self ELSE arg.player

\* new Demodulator(playerOrOptions): this.player = player || new AudioPlayer(),
\* and the squelch control reads this.player.sampleRate.
newDemodulator(arg) ==
  LET player == chosenPlayer(arg)
  IN [arg |-> arg,
      player |-> IF player # << >> THEN 1 ELSE 0,
      sampleRate |-> IF player # << >> THEN <<player[1].rate>> ELSE << >>,
      volume |-> [i \in PlayerIds |-> 0],
      plays |-> [i \in PlayerIds |-> 0],
      got |-> << >>]

InitPlayer ==
  /\ DemodulatorInit
  /\ CallInit
  /\ ConfigInit
  /\ WbfmInit
  /\ LengthInit
  /\ CounterInit
  /\ FakeInit
  /\ \E arg \in ConstructorArgs : sink = newDemodulator(arg)
  /\ SchemesInit
  /\ CompositeInit
  /\ LogInit
  /\ IoInit
  /\ CwInit

\* Demodulator.setVolume(volume)
SetVolume ==
  \E v \in Volumes :
    /\ sink' = [sink EXCEPT !.volume[sink.player] = v]
    /\ UNCHANGED <<earlierVars, laterButPlayer>>

\* Demodulator.getVolume()
GetVolume ==
  /\ sink' = [sink EXCEPT !.got = <<[from |-> sink.player, volume |-> sink.volume[sink.player]]>>]
  /\ UNCHANGED <<earlierVars, laterButPlayer>>

\* The this.player.play(left, right) of a receiveSamples call.
PlayBlock ==
  /\ sink.plays[sink.player] < MaxBlocks
  /\ sink' = [sink EXCEPT !.plays[sink.player] = @ + 1]
  /\ UNCHANGED <<earlierVars, laterButPlayer>>

NextPlayer ==
  \/ SetVolume
  \/ GetVolume
  \/ PlayBlock

SpecPlayer == InitPlayer /\ [][NextPlayer]_vars

(***************************************************************************)
(* The list of registered schemes (modes.ts registerDemod,                 *)
(* unregisterDemod, getSchemes), after the import of demodulator.ts.       *)
(***************************************************************************)

\* Calls to registerDemod and unregisterDemod made after the import.
MaxCalls == 3

\* Registrations a program makes: the stock CW and WBFM again, CW with
\* other classes, and a scheme of its own, with two sets of classes.
SchemeRegistrations ==
  {[name |-> "CW", demod |-> "DemodCW", config |-> "ConfigCW"],
   [name |-> "CW", demod |-> "DemodAM", config |-> "ConfigAM"],
   [name |-> "WBFM", demod |-> "DemodWBFM", config |-> "ConfigWBFM"],
   [name |-> "MY", demod |-> "DemodAM", config |-> "ConfigAM"],
   [name |-> "MY", demod |-> "DemodCW", config |-> "ConfigCW"]}

\* Names a program unregisters.
SchemeNames == {"WBFM", "NBFM", "CW", "MY"}

\* getSchemes(): [...registeredDemods.keys()]
getSchemes(reg) == [i \in 1..Len(reg) |-> reg[i].name]

RegisterScheme ==
  \E e \in SchemeRegistrations :
    /\ Len(schemes.log) < Len(ImportCalls) + MaxCalls
    /\ registeredDemods' = registerDemod(registeredDemods, e.name, e.demod, e.config)
    /\ schemes' = [log |-> Append(schemes.log, [op |-> "register", name |-> e.name,
                                                 demod |-> e.demod, config |-> e.config]),
                   got |-> << >>]
    /\ UNCHANGED <<controllerVars, tunerVars, readVars, callVars, cfgVars, wbfmVars,
                   lengthVars, counterVars, fakeVars, laterButSchemes>>

UnregisterScheme ==
  \E name \in SchemeNames :
    /\ Len(schemes.log) < Len(ImportCalls) + MaxCalls
    /\ registeredDemods' = unregisterDemod(registeredDemods, name)
    /\ schemes' = [log |-> Append(schemes.log, [op |-> "unregister", name |-> name,
                                                 demod |-> "", config |-> ""]),
                   got |-> << >>]
    /\ UNCHANGED <<controllerVars, tunerVars, readVars, callVars, cfgVars, wbfmVars,
                   lengthVars, counterVars, fakeVars, laterButSchemes>>

GetSchemes ==
  /\ schemes' = [schemes EXCEPT !.got = <<getSchemes(registeredDemods)>>]
  /\ UNCHANGED <<demodVars, tunerVars, readVars, callVars, cfgVars, wbfmVars,
                 lengthVars, counterVars, fakeVars, laterButSchemes>>

NextSchemes ==
  \/ RegisterScheme
  \/ UnregisterScheme
  \/ GetSchemes

SpecSchemes == Init /\ [][NextSchemes]_vars

(***************************************************************************)
(* CompositeReceiver (sample_receiver.ts).                                 *)
(***************************************************************************)

\* Calls to CompositeReceiver.of.
MaxOfs == 2

\* The receivers that are not composites, by number.
LeafIds == {1, 2}

\* Arguments of setSampleRate and of receiveSamples (a block, by number,
\* and its frequency).
CompositeRates == {256000, 1024000}
CompositeBlocks == [block : {1, 2}, frequency : {0, 1}]

RECURSIVE pushAll(_, _)
\* The loop over rest: list.push(...next.receivers) or list.push(next).
pushAll(list, rest) ==
  IF rest = << >> THEN list
  ELSE pushAll(list \o (IF Head(rest).composite THEN Head(rest).receivers ELSE <<Head(rest)>>),
               Tail(rest))

\* Mutant of of: a CompositeReceiver is made for a single receiver too.
of_alwaysComposite(first, rest) ==
  Composite(pushAll(IF first.composite THEN first.receivers ELSE <<first>>, rest))

\* CompositeReceiver.of(first, ...rest)
of(first, rest) ==
  LET list == pushAll(IF first.composite THEN first.receivers ELSE <<first>>, rest)
  IN IF Len(list) = 1 THEN list[1] ELSE Composite(list)

RECURSIVE dispatch(_, _)
\* receiver.setSampleRate(...) or receiver.receiveSamples(...): the calls
\* that reach receivers that are not composites, in order.
dispatch(receiver, call) ==
  IF ~receiver.composite THEN <<[target |-> receiver.id, call |-> call]>>
  ELSE IF receiver.receivers = << >> THEN << >>
  ELSE dispatch(Head(receiver.receivers), call)
       \o dispatch(Composite(Tail(receiver.receivers)), call)

\* Argument lists of of: one to three receivers, each a plain receiver or
\* the receiver made before.
OfArgs ==
  LET choice == {Leaf(i) : i \in LeafIds} \cup {comp.receiver}
  IN UNION {[1..n -> choice] : n \in 1..3}

Of ==
  \E args \in OfArgs :
    /\ comp.ofs < MaxOfs
    /\ comp' = [receiver |-> of(Head(args), Tail(args)),
                     tree |-> Composite([i \in 1..Len(args) |->
                                IF args[i] = comp.receiver THEN comp.tree ELSE args[i]]),
                     ofs |-> comp.ofs + 1,
                     last |-> << >>,
                     calls |-> << >>]
    /\ UNCHANGED <<earlierVars, laterButComposite>>

CompositeSetSampleRate ==
  \E r \in CompositeRates :
    LET call == [op |-> "setSampleRate", sampleRate |-> r, block |-> 0, frequency |-> 0]
    IN /\ comp' = [comp EXCEPT !.last = <<call>>,
                                         !.calls = dispatch(comp.receiver, call)]
       /\ UNCHANGED <<earlierVars, laterButComposite>>

CompositeReceiveSamples ==
  \E b \in CompositeBlocks :
    LET call == [op |-> "receiveSamples", sampleRate |-> 0, block |-> b.block,
                 frequency |-> b.frequency]
    IN /\ comp' = [comp EXCEPT !.last = <<call>>,
                                         !.calls = dispatch(comp.receiver, call)]
       /\ UNCHANGED <<earlierVars, laterButComposite>>

NextComposite ==
  \/ Of
  \/ CompositeSetSampleRate
  \/ CompositeReceiveSamples

SpecComposite == Init /\ [][NextComposite]_vars

(***************************************************************************)
(* The frequency offset with the calls on the Demodulator written down:    *)
(* the same three operations as above, each adding itself to opLog.        *)
(***************************************************************************)

\* Calls written down in opLog.
MaxOps == 5

LoggedSetFrequencyOffset ==
  \E o \in Offsets :
    /\ Len(opLog) < MaxOps
    /\ setFrequencyOffset(o)
    /\ opLog' = Append(opLog, [op |-> "setFrequencyOffset", center |-> 0, offset |-> o])
    /\ UNCHANGED <<tunerVars, readVars, callVars, cfgVars, wbfmVars, lengthVars,
                   counterVars, fakeVars, laterButLog>>

LoggedExpectFrequencyAndSetOffset ==
  \E c \in Centers, o \in Offsets :
    /\ Len(opLog) < MaxOps
    /\ expectFrequencyAndSetOffset(c, o)
    /\ opLog' = Append(opLog, [op |-> "expectFrequencyAndSetOffset", center |-> c, offset |-> o])
    /\ UNCHANGED <<tunerVars, readVars, callVars, cfgVars, wbfmVars, lengthVars,
                   counterVars, fakeVars, laterButLog>>

LoggedReceiveSamples ==
  \E f \in Centers :
    /\ Len(opLog) < MaxOps
    /\ receiveSamples(f, 2, FALSE, 5)
    /\ opLog' = Append(opLog, [op |-> "receiveSamples", center |-> f, offset |-> 0])
    /\ UNCHANGED <<tunerVars, readVars, callVars, cfgVars, wbfmVars, lengthVars,
                   counterVars, fakeVars, laterButLog>>

NextPending ==
  \/ LoggedSetFrequencyOffset
  \/ LoggedExpectFrequencyAndSetOffset
  \/ LoggedReceiveSamples

SpecPending == Init /\ [][NextPending]_vars

(***************************************************************************)
(* The squelch tail across modes: setMode, setSampleRate and blocks, with  *)
(* the block that last started the tail written down.                      *)
(***************************************************************************)
TailReceiveSamples ==
  \E f \in Centers, n \in BlockLens, found \in BOOLEAN, snr \in Snrs :
    LET params == getRegisteredDemod(registeredDemods, mode.scheme).config
    IN /\ receiveSamples(f, n, found, snr)
       /\ opLog' = IF hasSquelch(params) /\ getSquelch(params, mode) < snr
                   THEN <<[op |-> "receiveSamples", scheme |-> mode.scheme, pipeline |-> demod.id]>>
                   ELSE opLog
       /\ UNCHANGED <<tunerVars, readVars, callVars, cfgVars, wbfmVars, lengthVars,
                      counterVars, fakeVars, laterButLog>>

NextTail ==
  \/ SetMode
  \/ SetSampleRate
  \/ TailReceiveSamples

SpecTail == Init /\ [][NextTail]_vars

(***************************************************************************)
(* The stereo-status events: setMode, setSampleRate and blocks, with every *)
(* event the Demodulator dispatches written down.                          *)
(***************************************************************************)
StereoReceiveSamples ==
  \E f \in Centers, n \in BlockLens, found \in BOOLEAN, snr \in Snrs :
    /\ receiveSamples(f, n, found, snr)
    /\ opLog' = IF lastCall'[1].event # << >>
                THEN Append(opLog, [op |-> "stereo-status", stereo |-> lastCall'[1].event[1]])
                ELSE opLog
    /\ UNCHANGED <<tunerVars, readVars, callVars, cfgVars, wbfmVars, lengthVars,
                   counterVars, fakeVars, laterButLog>>

NextStereo ==
  \/ SetMode
  \/ SetSampleRate
  \/ StereoReceiveSamples

SpecStereo == Init /\ [][NextStereo]_vars

(***************************************************************************)
(* The input arrays of receiveSamples.  Every pipeline starts with         *)
(* this.shifter.inPlace(samplesI, samplesQ, -freqOffset).  A sample is     *)
(* held as its phase, in steps of 1/Turn of a turn, and a frequency as     *)
(* steps per sample.                                                       *)
(***************************************************************************)

Turn == 8

\* The blocks the radio delivers: the phases of their samples.
DeliveredBlocks == {<<0, 2>>, <<1, 1>>, <<3, 7>>}

\* FrequencyShifter.inPlace(I, Q, freq): every sample is turned by the
\* running phase, which advances by freq per sample and carries over to the
\* next call.
FrequencyShifter_inPlace(theta, angles, freq) ==
  [angles |-> [i \in 1..Len(angles) |-> (angles[i] + theta + freq * (i - 1)) % Turn],
   theta |-> (theta + freq * Len(angles)) % Turn]

\* The contents of samplesI and samplesQ when Demod.demodulate returns: they
\* were shifted in place; a WBFM first stage without downsampler (input rate
\* equal to the intermediate rate) goes on to filter and demodulate in them.
inputAfter(d, theta, angles, freqOffset) ==
  LET shifted == FrequencyShifter_inPlace(theta, angles, -freqOffset)
  IN [theta |-> shifted.theta,
      after |-> [angles |-> shifted.angles,
                 reused |-> d.cls = "DemodWBFM" /\ d.inRate <= InterRateLimit]]

InputReceiveSamples ==
  \E block \in DeliveredBlocks :
    LET e == applyExpected(expectingFrequency, frequencyOffset, 0)
        theta == IF io.pipeline = demod.id THEN io.theta ELSE 0
        r == inputAfter(demod, theta, block, e.offset)
    IN /\ receiveSamples(0, Len(block), FALSE, 5)
       /\ io' = [pipeline |-> demod.id, theta |-> r.theta, delivered |-> block,
                 after |-> r.after]
       /\ UNCHANGED <<tunerVars, readVars, callVars, cfgVars, wbfmVars, lengthVars,
                      counterVars, fakeVars, laterButIo>>

NextInput ==
  \/ SetMode
  \/ SetSampleRate
  \/ SetFrequencyOffset
  \/ InputReceiveSamples

SpecInput == Init /\ [][NextInput]_vars

(***************************************************************************)
(* The CW pipeline's audio filter (demod-cw.ts DemodCW).                   *)
(***************************************************************************)

\* The audioTaps option: absent, 0, or an odd number of taps.
AudioTapsOptions == {<< >>, <<0>>, <<101>>, <<351>>}

\* Audio rates and CW bandwidths.
CwOutRates == {8000, 44100, 48000}
CwBandwidths == {DefaultBandwidthCW, 100, 1000}

\* Mutant of DemodCW_setMode: the kernel is recomputed with 151 taps.
DemodCW_setMode_151(d, m) ==
  LET kernel == makeLowPassKernel(d.outRate, m.bandwidth \div 2, 151)
  IN [d EXCEPT !.mode = m, !.filterI = kernel, !.filterQ = kernel, !.sets = @ + 1]

\* DemodCW.setMode(mode): the kernel is recomputed with this.audioTaps and
\* given to both filters.
DemodCW_setMode(d, m) ==
  LET kernel == makeLowPassKernel(d.outRate, m.bandwidth \div 2, d.audioTaps)
  IN [d EXCEPT !.mode = m, !.filterI = kernel, !.filterQ = kernel, !.sets = @ + 1]

InitCw ==
  /\ DemodulatorInit
  /\ CallInit
  /\ ConfigInit
  /\ WbfmInit
  /\ LengthInit
  /\ CounterInit
  /\ FakeInit
  /\ PlayerInit
  /\ SchemesInit
  /\ CompositeInit
  /\ LogInit
  /\ IoInit
  /\ \E r \in CwOutRates, b \in CwBandwidths, o \in AudioTapsOptions :
       cw = newDemodCW(r, [scheme |-> "CW", bandwidth |-> b], o)

CwSetMode ==
  \E b \in CwBandwidths :
    /\ cw.sets < MaxSets
    /\ cw' = DemodCW_setMode(cw, [scheme |-> "CW", bandwidth |-> b])
    /\ UNCHANGED <<earlierVars, laterButCw>>

\* DemodCW.demodulate: the filters are used as they are.
CwDemodulate ==
  /\ cw.blocks < MaxBlocks
  /\ cw' = [cw EXCEPT !.blocks = @ + 1]
  /\ UNCHANGED <<earlierVars, laterButCw>>

NextCw ==
  \/ CwSetMode
  \/ CwDemodulate

SpecCw == InitCw /\ [][NextCw]_vars

(***************************************************************************)
(* Helpers of the properties.                                              *)
(***************************************************************************)
\* The step is a receiveSamples call.
Received == nReceived' = nReceived + 1
\* The record of the call made by the step.
Call == lastCall'[1]
\* The schemes whose mode record has a squelch threshold.
SquelchSchemes == {"NBFM", "AM", "USB", "LSB"}
\* The stereo flag of the block emitted before the step (initially false).
PreviousStereo == IF lastCall = << >> THEN FALSE ELSE lastCall[1].stereo
\* Position of an effect in the trace of a call (0 when absent).
Position(trace, op) ==
  IF \E i \in 1..Len(trace) : trace[i] = op
  THEN CHOOSE i \in 1..Len(trace) : trace[i] = op
  ELSE 0
Count(trace, op) == Cardinality({i \in 1..Len(trace) : trace[i] = op})

(***************************************************************************)
(* C1: after expectFrequencyAndSetOffset(c, o), a block whose frequency    *)
(* differs from c leaves the frequency offset and the pending tuple        *)
(* unchanged; a block whose frequency equals c is demodulated with o, the  *)
(* offset becomes o and the pending tuple is cleared, so that later blocks *)
(* at c are demodulated with the current offset.                           *)
(***************************************************************************)
C1_DeferredOffset ==
  [][Received =>
       IF expectingFrequency # << >> /\ expectingFrequency[1].center = Call.frequency
       THEN /\ Call.offset = expectingFrequency[1].offset
            /\ frequencyOffset' = expectingFrequency[1].offset
            /\ expectingFrequency' = << >>
       ELSE /\ Call.offset = frequencyOffset
            /\ frequencyOffset' = frequencyOffset
            /\ expectingFrequency' = expectingFrequency]_vars

\* A matching block has applied a pending offset that differs from the one
\* used before, and the tuple is cleared.
C1_Witness ==
  /\ lastCall # << >>
  /\ lastCall[1].applied
  /\ lastCall[1].offset = 1
  /\ frequencyOffset = 1
  /\ expectingFrequency = << >>
  /\ nReceived >= 2

(***************************************************************************)
(* C2: no block is demodulated with a mismatched offset: with retunes      *)
(* requested as expectFrequencyAndSetOffset(c, o) followed by the tuner    *)
(* retuning to c, every block of centre frequency c is demodulated with    *)
(* the offset last paired with c.                                          *)
(***************************************************************************)
C2_NoMismatchedOffset ==
  [][Received => Call.offset = paired[Call.frequency]]_vars

(***************************************************************************)
(* C3: the squelch gate step rule, for a mode with threshold s and a block *)
(* of ratio snr and length n: if snr > s the block is passed unchanged and *)
(* the counter is set to 0.1 * audioSampleRate; otherwise if the counter   *)
(* is > 0 the block is passed unchanged and the counter decreases by n;    *)
(* otherwise both channels are zeroed and the counter is unchanged.        *)
(* (The counter is in tenths of a sample.)                                 *)
(***************************************************************************)
C3_SquelchStep ==
  [][Received /\ mode.scheme \in SquelchSchemes =>
       IF Call.snr > mode.squelch
       THEN /\ Call.playedLeft = Call.left /\ Call.playedRight = Call.right
            /\ countdown' = PlayerSampleRate
       ELSE IF countdown > 0
       THEN /\ Call.playedLeft = Call.left /\ Call.playedRight = Call.right
            /\ countdown' = countdown - 10 * Len(Call.left)
       ELSE /\ Call.playedLeft = Zeros(Len(Call.left))
            /\ Call.playedRight = Zeros(Len(Call.right))
            /\ countdown' = countdown]_vars

\* A low-SNR block was passed during the tail and the counter decreased by
\* its length.
C3_Witness ==
  /\ mode.scheme \in SquelchSchemes
  /\ lastCall # << >>
  /\ lastCall[1].snr <= mode.squelch
  /\ lastCall[1].playedLeft = lastCall[1].left
  /\ countdown = PlayerSampleRate - 10 * Len(lastCall[1].left)

(***************************************************************************)
(* C4: in a squelch-capable mode a block with snr above the threshold is   *)
(* never zeroed; a low-SNR block that follows a high-SNR block is passed   *)
(* exactly when the total length of the low-SNR blocks before it, since    *)
(* that high-SNR block, is less than 0.1 * audioSampleRate, and is zeroed  *)
(* otherwise.                                                              *)
(***************************************************************************)
C4_SquelchTail ==
  [][Received /\ mode.scheme \in SquelchSchemes =>
       /\ Call.snr > mode.squelch =>
            Call.playedLeft = Call.left /\ Call.playedRight = Call.right
       /\ Call.snr <= mode.squelch /\ tail.seenHigh =>
            IF tail.lowSince < PlayerSampleRate
            THEN Call.playedLeft = Call.left /\ Call.playedRight = Call.right
            ELSE /\ Call.playedLeft = Zeros(Len(Call.left))
                 /\ Call.playedRight = Zeros(Len(Call.right))]_vars

\* After a high-SNR block, low-SNR blocks of two tails' length have been
\* received and the latest one was zeroed.
C4_Witness ==
  /\ tail.seenHigh
  /\ tail.lowSince >= 2 * PlayerSampleRate
  /\ lastCall # << >>
  /\ lastCall[1].playedLeft = Zeros(Len(lastCall[1].left))
  /\ lastCall[1].left # Zeros(Len(lastCall[1].left))

(***************************************************************************)
(* C5: in the modes without a squelch parameter (WBFM, CW) the block       *)
(* handed to the sink equals the block the pipeline produced, for every    *)
(* snr and every value of the tail counter, and the counter is unchanged.  *)
(***************************************************************************)
C5_NoSquelchPassThrough ==
  [][Received /\ mode.scheme \in {"WBFM", "CW"} =>
       /\ Call.playedLeft = Call.left
       /\ Call.playedRight = Call.right
       /\ countdown' = countdown]_vars

\* A CW block of snr 0 was passed although the tail counter had run out.
C5_Witness ==
  /\ mode.scheme = "CW"
  /\ countdown <= 0
  /\ tail.seenHigh
  /\ lastCall # << >>
  /\ lastCall[1].snr = 0
  /\ lastCall[1].demodId = demod.id
  /\ lastCall[1].playedLeft = lastCall[1].left
  /\ lastCall[1].left # Zeros(Len(lastCall[1].left))

(***************************************************************************)
(* C6: setMode(m): if m.scheme is the scheme of the active pipeline the    *)
(* same instance is kept, with its state, and takes m; otherwise a fresh   *)
(* pipeline is constructed for m at the current input rate and the         *)
(* player's sample rate.  Afterwards getMode() and the pipeline's          *)
(* getMode() are m.                                                        *)
(***************************************************************************)
C6_SetMode ==
  /\ [](demod.mode = mode)
  /\ [][mode' # mode =>
          IF mode'.scheme = demod.mode.scheme
          THEN demod' = [demod EXCEPT !.mode = mode']
          ELSE /\ demod'.id >= nextId
               /\ demod'.blocks = 0
               /\ demod'.mode = mode'
               /\ demod'.inRate = inRate
               /\ demod'.outRate = PlayerSampleRate]_vars

\* The first pipeline instance, which has demodulated a block, has taken a
\* mode other than the one it was constructed with.
C6_Witness ==
  /\ demod.id = 1
  /\ demod.blocks >= 1
  /\ mode = [scheme |-> "WBFM", stereo |-> FALSE]
  /\ demod.mode = mode

(***************************************************************************)
(* C7: setSampleRate(r) always replaces the active pipeline by a newly     *)
(* constructed one for the current mode at input rate r, also when the     *)
(* scheme (and the rate) is unchanged; every block is demodulated by the   *)
(* active pipeline, which is built for the current input rate.             *)
(***************************************************************************)
C7_SetSampleRate ==
  /\ [](demod.inRate = inRate)
  /\ [][SetSampleRate \/ SetSampleRateOrThrow =>
          /\ demod'.id >= nextId
          /\ demod'.blocks = 0
          /\ demod'.inRate = inRate'
          /\ demod'.mode = mode
          /\ mode' = mode]_vars
  /\ [][Received => Call.demodId = demod.id]_vars

C9_PlayOrder ==
  /\ Len(played) = nReceived
  /\ \A i \in 1..Len(played) : played[i] = i
  /\ lastCall # << >> =>
       /\ Count(lastCall[1].trace, "play") = 1
       /\ Position(lastCall[1].trace, "demodulate") >= 1
       /\ Position(lastCall[1].trace, "demodulate") < Position(lastCall[1].trace, "applySquelch")
       /\ Position(lastCall[1].trace, "applySquelch") < Position(lastCall[1].trace, "play")

(***************************************************************************)
(* C10: while running, the read loop keeps reads in flight: at least one   *)
(* read is outstanding in every state, and exactly two between callbacks,  *)
(* the callback issuing the next read before it processes its block.       *)
(***************************************************************************)
C10_ReadsInFlight ==
  running =>
    /\ inFlight >= 1
    /\ pc = "idle" => inFlight = 2
    /\ pc = "process" => inFlight = 2

\* A callback has issued the next read and is about to process its block,
\* after an earlier block was processed.
C10_Witness ==
  /\ running
  /\ pc = "process"
  /\ inFlight = 2
  /\ nReceived >= 1

(***************************************************************************)
(* C11: after stop is requested no further read is issued, the reads in    *)
(* flight resolve, no block resolved after the stop is delivered to the    *)
(* sample receiver, and the number of outstanding reads eventually         *)
(* reaches zero.                                                           *)
(***************************************************************************)
C11_StopDrains ==
  /\ [][~running =>
          /\ ~running'
          /\ inFlight' <= inFlight
          /\ nReceived' = nReceived
          /\ played' = played]_vars
  /\ (~running ~> inFlight = 0)

\* The loop was stopped after two blocks were delivered and both reads that
\* were in flight have resolved without a delivery.
C11_Witness ==
  /\ ~running
  /\ inFlight = 0
  /\ pc = "idle"
  /\ nReceived = 2

(***************************************************************************)
(* C12: a request that names a scheme that is not registered (getMode,     *)
(* getDemod, modeParameters, Demodulator.setMode) is reported as an error, *)
(* and a setMode that fails leaves the mode and the active pipeline        *)
(* unchanged.                                                              *)
(***************************************************************************)
C12_UnregisteredIsError ==
  /\ [](thrown # << >> /\ registryGet(registeredDemods, thrown[1].scheme) = << >>
          => thrown[1].error)
  /\ [][thrown' # << >> /\ thrown'[1].op = "setMode" /\ thrown'[1].error
          => UNCHANGED <<mode, demod, nextId>>]_vars

\* The range the claims give for a scheme's bandwidth, in hertz.
BandwidthRange(scheme) ==
  CASE scheme \in {"AM", "NBFM"} -> [lo |-> 250, hi |-> 30000]
    [] scheme \in {"USB", "LSB"} -> [lo |-> 10, hi |-> 15000]
    [] scheme = "CW" -> [lo |-> 5, hi |-> 1000]

\* r is the number b clamped to lo..hi.
Clamped(r, b, lo, hi) ==
  /\ ~r.nan
  /\ Num(lo).v <= r.v /\ r.v <= Num(hi).v
  /\ ~b.nan /\ Num(lo).v <= b.v /\ b.v <= Num(hi).v => r = b
  /\ ~b.nan /\ b.v < Num(lo).v => r = Num(lo)
  /\ ~b.nan /\ b.v > Num(hi).v => r = Num(hi)

(***************************************************************************)
(* C13: for every scheme with a bandwidth parameter and every number b,    *)
(* getBandwidth() after setBandwidth(b) is b clamped to the scheme's range *)
(* (AM and NBFM 250..30000, USB/LSB 10..15000, CW 5..1000); for WBFM       *)
(* setBandwidth changes nothing and getBandwidth is 150000.                *)
(***************************************************************************)
C13_BandwidthClamped ==
  /\ [](lastSet # << >> /\ lastSet[1].op = "setBandwidth" /\ cfg.scheme # "WBFM" =>
          Clamped(getBandwidth(heap, cfg), lastSet[1].arg,
                  BandwidthRange(cfg.scheme).lo, BandwidthRange(cfg.scheme).hi))
  /\ [](cfg.scheme = "WBFM" => getBandwidth(heap, cfg) = Num(150000))
  /\ [][cfg.scheme = "WBFM" /\ lastSet' # << >> /\ lastSet'[1].op = "setBandwidth" =>
          heap' = heap /\ cfg' = cfg]_vars

(***************************************************************************)
(* C14: for NBFM, AM, USB and LSB getSquelch() after setSquelch(x) is x    *)
(* clamped to 0..6, for every number x; for WBFM and CW setSquelch leaves  *)
(* the mode unchanged and getSquelch is 0; setStereo changes the mode only *)
(* for WBFM, and getStereo is false for every other scheme.                *)
(***************************************************************************)
C14_SquelchStereoSetters ==
  /\ [](lastSet # << >> /\ lastSet[1].op = "setSquelch" /\ cfg.scheme \in SquelchSchemes =>
          Clamped(getSquelch(cfg.config, modeRecord(heap, cfg)), lastSet[1].arg, 0, 6))
  /\ [](cfg.scheme \in {"WBFM", "CW"} => getSquelch(cfg.config, modeRecord(heap, cfg)) = 0)
  /\ [](cfg.scheme # "WBFM" => ~getStereo(heap, cfg))
  /\ [](lastSet # << >> /\ lastSet[1].op = "setStereo" /\ cfg.scheme = "WBFM" =>
          getStereo(heap, cfg) = lastSet[1].arg)
  /\ [][/\ lastSet' # << >>
        /\ \/ lastSet'[1].op = "setSquelch" /\ cfg.scheme \in {"WBFM", "CW"}
           \/ lastSet'[1].op = "setStereo" /\ cfg.scheme # "WBFM"
        => heap' = heap /\ cfg' = cfg]_vars

(***************************************************************************)
(* C15: configurator setters never modify a mode record in place: after    *)
(* setBandwidth, setSquelch or setStereo every record that existed before, *)
(* the one handed to modeParameters included, has all its fields           *)
(* unchanged, and the change is visible only in the record the             *)
(* configurator's mode property returns; the Demodulator's mode and        *)
(* pipeline are unchanged.                                                 *)
(***************************************************************************)
C15_SettersCopy ==
  [][lastSet' # << >> =>
       /\ Len(heap') >= Len(heap)
       /\ \A r \in 1..Len(heap) : heap'[r] = heap[r]
       /\ given' = given
       /\ modeRecord(heap', cfg') # modeRecord(heap, cfg) => cfg'.ref > Len(heap)
       /\ UNCHANGED <<mode, demod>>]_vars

\* A setter has changed the bandwidth seen through the configurator while
\* the record handed to modeParameters keeps its own.
C15_Witness ==
  /\ given = 1
  /\ lastSet # << >>
  /\ lastSet[1].op = "setBandwidth"
  /\ cfg.scheme = "AM"
  /\ heap[given].bandwidth = Num(DefaultBandwidthAM)
  /\ modeRecord(heap, cfg).bandwidth = Num(250)

(***************************************************************************)
(* C16 as stated: the emitted stereo flag is true exactly when stereo is   *)
(* requested and the pilot is found for the block; when it is not, left    *)
(* and right are identical before and after de-emphasis; the emitted snr   *)
(* is the stage-1 snr.                                                     *)
(***************************************************************************)
C16_Original ==
  wbOut # << >> =>
    /\ wbOut[1].stereo = (wbOut[1].requested /\ wbOut[1].found)
    /\ ~wbOut[1].stereo => wbOut[1].preLeft = wbOut[1].preRight
    /\ ~wbOut[1].stereo => wbOut[1].left = wbOut[1].right
    /\ wbOut[1].snr = wbOut[1].snr1

(***************************************************************************)
(* C16 amended: the stereo flag is true exactly when stereo is requested   *)
(* and the pilot is found; when it is not, left and right are identical    *)
(* before de-emphasis, and identical after de-emphasis if the two          *)
(* de-emphasis filters held the same state when the block started, which   *)
(* is the case as long as the pipeline has produced no stereo block; the   *)
(* emitted snr is the stage-1 snr.                                         *)
(***************************************************************************)
C16_WbfmOutput ==
  /\ wb.stereoBlocks = 0 => wb.leftVal = wb.rightVal
  /\ wbOut # << >> =>
       /\ wbOut[1].stereo = (wbOut[1].requested /\ wbOut[1].found)
       /\ ~wbOut[1].stereo => wbOut[1].preLeft = wbOut[1].preRight
       /\ ~wbOut[1].stereo /\ wbOut[1].leftBefore = wbOut[1].rightBefore =>
            wbOut[1].left = wbOut[1].right
       /\ wbOut[1].snr = wbOut[1].snr1

\* Stereo was requested, the pilot was not found, and the block came out
\* with identical channels and the stage-1 snr, after an earlier block.
C16_Witness ==
  /\ wbOut # << >>
  /\ wbOut[1].requested /\ ~wbOut[1].found
  /\ ~wbOut[1].stereo
  /\ wbOut[1].left = wbOut[1].right
  /\ wbOut[1].snr = 5
  /\ wb.blocks = 2

(***************************************************************************)
(* C17: for every mode, input rate, output rate and block length n the     *)
(* audio block has length floor(n * outputRate / inputRate); the two-stage *)
(* WBFM pipeline yields the same length as the single-stage pipelines.     *)
(***************************************************************************)
C17_LengthLaw ==
  lengthOut # << >> =>
    lengthOut[1] = (lengthCase.n * lengthCase.outRate) \div lengthCase.inRate

(***************************************************************************)
(* C18: at a fixed sample rate, after receiveSamples calls totalling N     *)
(* samples, whatever the block sizes, a SampleCounter with ticksPerSecond  *)
(* has dispatched floor(N / floor(sampleRate / ticksPerSecond)) events; a  *)
(* counter built without ticksPerSecond never dispatches one.              *)
(***************************************************************************)
C18_ClickCount ==
  /\ counter.clicksPerSecond = << >> => clicks.events = 0
  /\ counter.clicksPerSecond # << >> /\ clicks.fixedRate =>
       clicks.events = clicks.total \div (counter.sampleRate \div counter.clicksPerSecond[1])

\* The byte the claim expects for a generated value v under gain g: the
\* gain-scaled value (unscaled when the gain is automatic) clipped to
\* [-1, +1] and requantised.
ExpectedByte(v, g) ==
  requantise(clip(v, IF g = << >> THEN 1 ELSE pow10(g[1])))

\* C19: for every generator value and every gain setting, numeric or
\* automatic (null), the byte FakeRtlDevice emits is round((c + 1) * 255 / 2)
\* with c the gain-scaled value clipped to [-1, +1]: values at or above +1
\* give 255, values at or below -1 give 0, and nothing wraps modulo 256.
C19_ClippedBytes ==
  bytes # << >> /\ bytes[1].pc = "resolved" =>
    LET r == bytes[1]
    IN /\ r.data[1] = ExpectedByte(r.I, r.gain)
       /\ r.data[2] = ExpectedByte(r.Q, r.gain)
       /\ r.I.m >= 2^r.I.e => r.data[1] = 255
       /\ r.I.m <= -(2^r.I.e) => r.data[1] = 0

\* C20: every unsigned byte b, converted to the float 2*b/255 - 1, clamped
\* to [-1, +1] and requantised with round(((f + 1) * 255) / 2), is b again:
\* the byte read from a device whose generator writes that float, when the
\* float was not scaled (the gain automatic, or a gain of multiplier 1).
C20_RoundTrip ==
  /\ bytes # << >>
  /\ bytes[1].pc = "resolved"
  /\ bytes[1].gain = << >> \/ bytes[1].gainMultiplier = 1
  => bytes[1].data = <<trip.b, trip.b>>

\* C20 witness: the byte 255 has gone all the way around, as the float +1
\* through the clamp of a device with a gain set when the generator ran.
C20_Witness ==
  /\ bytes # << >>
  /\ bytes[1].pc = "resolved"
  /\ bytes[1].gain = <<25>>
  /\ bytes[1].I = [m |-> 1, e |-> 0]
  /\ bytes[1].data = <<255, 255>>
  /\ trip.b = 255
  /\ trip.f = <<[m |-> 1, e |-> 0]>>

\* C21: a Player given to the Demodulator constructor, directly or as
\* options.player, is the Demodulator's sink: its sampleRate is the output
\* rate and play, setVolume and getVolume reach it and no other player; the
\* AudioPlayer is the sink only when no player is given.
C21_SuppliedPlayerIsSink ==
  LET given_ == supplied(sink.arg)
  IN /\ given_ # << >> =>
          /\ sink.player = 1
          /\ sink.sampleRate = <<given_[1].rate>>
          /\ sink.volume[0] = 0
          /\ sink.plays[0] = 0
          /\ sink.got # << >> => sink.got[1].from = 1
     /\ given_ = << >> => sink.player = 0

\* The last call of the log that names the scheme, 0 when there is none.
LastCall(log, name) ==
  LET idx == {i \in 1..Len(log) : log[i].name = name}
  IN IF idx = {} THEN 0 ELSE CHOOSE i \in idx : \A j \in idx : j <= i

\* The scheme is registered after the calls of the log.
RegisteredAfter(log, name) ==
  LastCall(log, name) # 0 /\ log[LastCall(log, name)].op = "register"

\* The call by which a registered scheme entered the registry: its first
\* registerDemod since it was last absent.
EntryCall(log, name) ==
  LET idx == {i \in 1..Len(log) :
                /\ log[i].name = name
                /\ log[i].op = "register"
                /\ \A j \in i..Len(log) : log[j].name = name => log[j].op = "register"}
  IN CHOOSE i \in idx : \A j \in idx : i <= j

\* C22: after any registerDemod and unregisterDemod calls, getSchemes()
\* lists exactly the names now registered, each once, in the order in which
\* they were registered (a registration of an existing name replaces it
\* where it is), and each name resolves to the classes of its most recent
\* registration; after the import alone the list is WBFM, NBFM, AM, USB,
\* LSB, CW.
C22_SchemesInOrder ==
  schemes.got # << >> =>
    LET got == schemes.got[1]
        log == schemes.log
    IN /\ {got[i] : i \in 1..Len(got)} = {log[i].name : i \in {j \in 1..Len(log) : RegisteredAfter(log, log[j].name)}}
       /\ \A i, j \in 1..Len(got) :
            i < j => EntryCall(log, got[i]) < EntryCall(log, got[j])
       /\ \A i \in 1..Len(got) :
            LET r == getRegisteredDemod(registeredDemods, got[i])
                c == log[LastCall(log, got[i])]
            IN r.ok /\ r.demod = c.demod /\ r.config = c.config
       /\ log = ImportCalls => got = <<"WBFM", "NBFM", "AM", "USB", "LSB", "CW">>

\* C22 witness: CW was registered again with other classes, a new scheme
\* was added and WBFM removed, and getSchemes() was called.
C22_Witness ==
  /\ schemes.got = << <<"NBFM", "AM", "USB", "LSB", "CW", "MY">> >>
  /\ getRegisteredDemod(registeredDemods, "CW").demod = "DemodAM"
  /\ Len(schemes.log) = Len(ImportCalls) + 3

RECURSIVE LeavesOf(_)
\* The plain receivers of a tree of of() calls, left to right.
LeavesOf(t) ==
  IF ~t.composite THEN <<t.id>>
  ELSE IF t.receivers = << >> THEN << >>
  ELSE LeavesOf(Head(t.receivers)) \o LeavesOf(Composite(Tail(t.receivers)))

\* C23: CompositeReceiver.of flattens nested CompositeReceivers in order and
\* returns the receiver itself when one results; a setSampleRate or
\* receiveSamples call on the result makes the same call, with the same
\* arguments, on every component once, in list order.
C23_CompositeOrder ==
  LET r == comp.receiver
      leaves == LeavesOf(comp.tree)
  IN /\ Len(leaves) = 1 => r = Leaf(leaves[1])
     /\ Len(leaves) > 1 =>
          /\ r.composite
          /\ r.receivers = [i \in 1..Len(leaves) |-> Leaf(leaves[i])]
     /\ comp.last # << >> =>
          comp.calls = [i \in 1..Len(leaves) |->
                               [target |-> leaves[i], call |-> comp.last[1]]]

\* C23 witness: a composite of receivers 1 and 2 was nested between two
\* plain receivers, and a block was delivered to the four components.
C23_Witness ==
  /\ comp.ofs = 2
  /\ LeavesOf(comp.tree) = <<2, 1, 2, 1>>
  /\ comp.tree.receivers[2].composite
  /\ comp.last # << >>
  /\ comp.last[1].op = "receiveSamples"
  /\ Len(comp.calls) = 4

\* The call written down by the step.
Logged == opLog'[Len(opLog')]

\* C24: setFrequencyOffset(x) sets the offset the very next block is
\* demodulated with and leaves a pending expectFrequencyAndSetOffset tuple
\* as it is; the tuple is replaced only by another
\* expectFrequencyAndSetOffset call and cleared only by a block of the
\* matching frequency, which still overwrites x with the pending offset.
C24_SetOffsetKeepsPending ==
  [][Len(opLog') = Len(opLog) + 1 =>
       /\ Logged.op = "setFrequencyOffset" =>
            /\ frequencyOffset' = Logged.offset
            /\ expectingFrequency' = expectingFrequency
       /\ Logged.op = "expectFrequencyAndSetOffset" =>
            /\ frequencyOffset' = frequencyOffset
            /\ expectingFrequency' = <<[center |-> Logged.center, offset |-> Logged.offset]>>
       /\ Logged.op = "receiveSamples" =>
            IF expectingFrequency # << >> /\ expectingFrequency[1].center = Logged.center
            THEN /\ Call.offset = expectingFrequency[1].offset
                 /\ frequencyOffset' = expectingFrequency[1].offset
                 /\ expectingFrequency' = << >>
            ELSE /\ Call.offset = frequencyOffset
                 /\ frequencyOffset' = frequencyOffset
                 /\ expectingFrequency' = expectingFrequency]_vars

\* C24 witness: with the tuple (1, 0) pending, setFrequencyOffset(1) was
\* called, a block at centre 0 was demodulated with offset 1, and a block
\* at centre 1 then put the offset back to the pending 0.
C24_Witness ==
  /\ Len(opLog) = 4
  /\ opLog[1] = [op |-> "expectFrequencyAndSetOffset", center |-> 1, offset |-> 0]
  /\ opLog[2] = [op |-> "setFrequencyOffset", center |-> 0, offset |-> 1]
  /\ opLog[3] = [op |-> "receiveSamples", center |-> 0, offset |-> 0]
  /\ opLog[4] = [op |-> "receiveSamples", center |-> 1, offset |-> 0]
  /\ lastCall[1].applied
  /\ frequencyOffset = 0
  /\ expectingFrequency = << >>

\* C25: in every state the Demodulator reaches by setMode, setSampleRate
\* and receiveSamples, when the mode's scheme is USB or LSB the active
\* pipeline is an SSB pipeline whose sideband, fixed when it was
\* constructed, matches the scheme: Upper for USB, Lower for LSB.
C25_SidebandMatchesScheme ==
  mode.scheme \in {"USB", "LSB"} =>
    /\ demod.cls = "DemodSSB"
    /\ demod.mode = mode
    /\ demod.sideband = IF mode.scheme = "USB" THEN "Upper" ELSE "Lower"

\* C25 witness: the third pipeline of the Demodulator is a lower-sideband
\* one, in LSB mode, and has demodulated a block.
C25_Witness ==
  /\ mode.scheme = "LSB"
  /\ demod.sideband = "Lower"
  /\ demod.id = 3
  /\ demod.blocks >= 1

\* C26: the squelch tail counter belongs to the Demodulator, not to the
\* pipeline: setMode, setSampleRate and blocks in a mode without squelch
\* leave it unchanged, so a tail started in one mode with squelch still
\* passes low-SNR audio after a switch to another mode with squelch.
C26_TailSurvivesModeChange ==
  [][/\ ~Received => countdown' = countdown
     /\ (Received /\ mode.scheme \notin SquelchSchemes) => countdown' = countdown
     /\ (Received /\ mode.scheme \in SquelchSchemes /\ Call.snr <= mode.squelch
           /\ countdown > 0) =>
          /\ Call.playedLeft = Call.left
          /\ Call.playedRight = Call.right
          /\ countdown' = countdown - 10 * Len(Call.left)]_vars

\* C26 witness: the tail was started by an NBFM block of the second
\* pipeline, and the first block of the third pipeline, an AM one of low
\* SNR, was passed unchanged.
C26_Witness ==
  /\ opLog = <<[op |-> "receiveSamples", scheme |-> "NBFM", pipeline |-> 2]>>
  /\ mode.scheme = "AM"
  /\ demod.id = 3
  /\ demod.blocks = 1
  /\ lastCall # << >>
  /\ lastCall[1].snr <= mode.squelch
  /\ lastCall[1].playedLeft = lastCall[1].left
  /\ lastCall[1].playedLeft # Zeros(Len(lastCall[1].left))

\* C27: the stereo-status events of a Demodulator alternate in value,
\* starting with true; an event with value true is raised only for a block
\* of the WBFM pipeline with stereo requested; blocks of the other
\* pipelines carry stereo = false, so the first block after leaving stereo
\* WBFM raises stereo-status(false).
C27_StereoEventsAlternate ==
  /\ [](\A i \in 1..Len(opLog) : opLog[i].stereo = (i % 2 = 1))
  /\ [][Received =>
          /\ Call.event = <<TRUE>> => (demod.cls = "DemodWBFM" /\ demod.mode.stereo)
          /\ demod.cls # "DemodWBFM" =>
               /\ ~Call.stereo
               /\ latestStereo => Call.event = <<FALSE>>]_vars

\* C27 witness: after stereo-status(true), the first block of an AM
\* pipeline raised stereo-status(false).
C27_Witness ==
  /\ Len(opLog) = 2
  /\ ~opLog[2].stereo
  /\ demod.cls = "DemodAM"
  /\ demod.blocks = 1
  /\ lastCall # << >>
  /\ lastCall[1].event = <<FALSE>>

\* C28: Demodulator.receiveSamples leaves the contents of its input I and Q
\* arrays as the radio delivered them, for every mode and frequency offset,
\* so a receiver placed after the Demodulator sees the same samples.
C28_InputUnchanged ==
  io.delivered # << >> =>
    /\ io.after.angles = io.delivered
    /\ ~io.after.reused

\* C29: for a SampleCounter with a click rate and at least one sample per
\* click, after every receiveSamples call the accumulated count is below
\* samplesPerClick and the call has dispatched at most one sample-click;
\* setSampleRate recomputes samplesPerClick and keeps the accumulated count.
C29_CountBelowClick ==
  [][(counter.clicksPerSecond # << >>
        /\ counter.sampleRate \div counter.clicksPerSecond[1] >= 1) =>
       /\ clicks'.calls = clicks.calls + 1 =>
            /\ counter'.countedSamples < counter'.samplesPerClick[1]
            /\ clicks'.last <= 1
       /\ clicks'.calls = clicks.calls =>
            /\ counter'.countedSamples = counter.countedSamples
            /\ counter'.samplesPerClick =
                 <<counter'.sampleRate \div counter'.clicksPerSecond[1]>>]_vars

\* C29 witness: the sample rate was changed, and a later block that covered
\* more than one click dispatched one event and left a count below
\* samplesPerClick.
C29_Witness ==
  /\ counter.clicksPerSecond = <<20>>
  /\ ~clicks.fixedRate
  /\ clicks.last = 1
  /\ clicks.total >= 2 * counter.samplesPerClick[1]
  /\ clicks.events = 1
  /\ counter.countedSamples < counter.samplesPerClick[1]

\* The group delay of a kernel of M taps: (M - 1) / 2 samples.
GroupDelay(kernel) == (kernel.length - 1) \div 2

\* C30: the CW pipeline's audio low-pass kernel keeps the number of taps
\* chosen at construction (351 when the options give none) across every
\* setMode call: a change of bandwidth recomputes the kernel for the new
\* corner with the same number of taps, so the filter's length and group
\* delay never change.
C30_AudioTapsKept ==
  LET chosen == IF cw.options # << >> /\ cw.options[1] # 0
                THEN cw.options[1] ELSE 351
  IN /\ cw.filterI.length = chosen
     /\ cw.filterQ.length = chosen
     /\ GroupDelay(cw.filterI) = (chosen - 1) \div 2
     /\ cw.filterI.cornerFreq = cw.mode.bandwidth \div 2
     /\ cw.filterQ = cw.filterI

\* C30 witness: a pipeline made without options has had its bandwidth
\* changed twice, to 1000 Hz at last, and has demodulated a block with a
\* kernel of 351 taps.
C30_Witness ==
  /\ cw.options = << >>
  /\ cw.sets = 2
  /\ cw.mode.bandwidth = 1000
  /\ cw.filterI.cornerFreq = 500
  /\ cw.filterI.length = 351
  /\ cw.blocks >= 1

====
